---- MODULE Spec2Model ----
(***************************************************************************)
(* Journaling and fire-and-forget pipeline of the agentic cost optimizer.  *)
(*                                                                         *)
(* The model covers                                                        *)
(*   - src/shared/event_recorder.py   record_event and the journal table   *)
(*   - src/agents/main.py             invoke, background_task and          *)
(*                                    _handle_background_task_error        *)
(*                                                                         *)
(* Encoding of Python values                                               *)
(*   - a string that the code formats or splits (an error message) is a    *)
(*     sequence of tokens; the separator " - " is one token, so            *)
(*     f"{a} - {b}" is <<a, " - ">> \o b and split(" - ", 1)[1] is the     *)
(*     part after the first " - " token; None and "" are both <<>>, the    *)
(*     code only tests such a value for truthiness;                        *)
(*   - an identifier (session id, table name, status) is a TLA+ string;    *)
(*     a value that is not a str is one of NonStrValues;                   *)
(*   - a dict or an item is a function from its keys; an absent key is     *)
(*     absent from the DOMAIN;                                             *)
(*   - an exception is a record [cls, code, op, msg].                      *)
(*   - the datetime `now` is an integer number of milliseconds; the        *)
(*     composite keys f"SESSION#{id}" and f"EVENT#{ts}#{event_id}" are     *)
(*     tuples <<"SESSION", id>> and <<"EVENT", ts, event_id>>.             *)
(*                                                                         *)
(* src/agents/main.py reads `config` from src/shared; the model takes it   *)
(* to be a loaded AppConfig (from_env has validated the table name).       *)
(***************************************************************************)
EXTENDS Integers, Sequences, FiniteSets, TLC

\* ------------------------------------------------------------------ bounds
MaxClock == 1
NumUuids == 2
NumInvocations == 2
MaxCalls == 2
MaxRuns == 2

\* ------------------------------------------------------- status taxonomy
SESSION_INITIATED == "SESSION_INITIATED"
AGENT_INVOCATION_STARTED == "AGENT_INVOCATION_STARTED"
AGENT_INVOCATION_SUCCEEDED == "AGENT_INVOCATION_SUCCEEDED"
AGENT_INVOCATION_FAILED == "AGENT_INVOCATION_FAILED"
AGENT_RUNTIME_INVOKE_STARTED == "AGENT_RUNTIME_INVOKE_STARTED"
AGENT_RUNTIME_INVOKE_FAILED == "AGENT_RUNTIME_INVOKE_FAILED"
AGENT_BACKGROUND_TASK_STARTED == "AGENT_BACKGROUND_TASK_STARTED"
AGENT_BACKGROUND_TASK_COMPLETED == "AGENT_BACKGROUND_TASK_COMPLETED"
AGENT_BACKGROUND_TASK_FAILED == "AGENT_BACKGROUND_TASK_FAILED"

\* the set record_event checks a status against
valid_statuses ==
  { SESSION_INITIATED, AGENT_INVOCATION_STARTED, AGENT_INVOCATION_SUCCEEDED,
    AGENT_INVOCATION_FAILED, AGENT_RUNTIME_INVOKE_STARTED,
    AGENT_RUNTIME_INVOKE_FAILED, AGENT_BACKGROUND_TASK_STARTED,
    AGENT_BACKGROUND_TASK_COMPLETED, AGENT_BACKGROUND_TASK_FAILED }

\* ------------------------------------------------------------ exceptions
NoExc == [cls |-> "", code |-> "", op |-> "", msg |-> <<>>]

ClientError(code, msg, op) ==
  [cls |-> "ClientError", code |-> code, op |-> op, msg |-> msg]

PyError(cls, msg) == [cls |-> cls, code |-> "", op |-> "", msg |-> msg]

NoCredentialsError ==
  PyError("NoCredentialsError", <<"Unable to locate credentials">>)

\* str(e): botocore formats a ClientError from its code, operation and
\* message; every other exception prints its message
Str(e) ==
  IF e.cls = "ClientError"
    THEN <<"An error occurred (", e.code, ") when calling the ", e.op,
           " operation: ">> \o e.msg
    ELSE e.msg

\* ------------------------------------------------------- the journal table
NonStrValues == {"\\None", "\\int"}

IsStr(x) == x \notin NonStrValues

SameKey(a, b) == a["PK"] = b["PK"] /\ a["SK"] = b["SK"]

ConditionalCheckFailed ==
  ClientError("ConditionalCheckFailedException",
              <<"The conditional request failed">>, "PutItem")

\* put_item had it no ConditionExpression: the item replaces the stored one
PutItemWithoutCondition(tbl, item, fault) ==
  IF fault # NoExc
    THEN [table |-> tbl, raised |-> fault]
    ELSE [table |-> {it \in tbl : ~SameKey(it, item)} \cup {item},
          raised |-> NoExc]

\* table.put_item(Item=item) with ConditionExpression
\* "attribute_not_exists(PK) AND attribute_not_exists(SK)": the write is
\* rejected when an item with the same primary key exists.  `fault` is what
\* the service does to this request (NoExc: it serves it).
PutItemIfAbsent(tbl, item, fault) ==
  IF fault # NoExc
    THEN [table |-> tbl, raised |-> fault]
    ELSE IF \E it \in tbl : SameKey(it, item)
      THEN [table |-> tbl, raised |-> ConditionalCheckFailed]
      ELSE [table |-> tbl \cup {item}, raised |-> NoExc]

\* an item that carries the errorMessage attribute whatever the message
EventItemWithMessageAlways(now, session_id, status, ttl_days, error_message, event_id) ==
  [k \in {"PK", "SK", "sessionId", "eventId", "createdAt", "status",
          "ttlSeconds", "errorMessage"} |->
     CASE k = "PK" -> <<"SESSION", session_id>>
       [] k = "SK" -> <<"EVENT", now, event_id>>
       [] k = "sessionId" -> session_id
       [] k = "eventId" -> event_id
       [] k = "createdAt" -> now
       [] k = "status" -> status
       [] k = "ttlSeconds" -> (now \div 1000) + (ttl_days * 24 * 60 * 60)
       [] k = "errorMessage" -> error_message]

\* the item record_event builds
EventItem(now, session_id, status, ttl_days, error_message, event_id) ==
  LET timestamp == now
      ttl_seconds == (now \div 1000) + (ttl_days * 24 * 60 * 60)
      item == [k \in {"PK", "SK", "sessionId", "eventId", "createdAt",
                      "status", "ttlSeconds"} |->
                 CASE k = "PK" -> <<"SESSION", session_id>>
                   [] k = "SK" -> <<"EVENT", timestamp, event_id>>
                   [] k = "sessionId" -> session_id
                   [] k = "eventId" -> event_id
                   [] k = "createdAt" -> timestamp
                   [] k = "status" -> status
                   [] k = "ttlSeconds" -> ttl_seconds]
  IN IF error_message # <<>>
       THEN [k \in DOMAIN item \cup {"errorMessage"} |->
               IF k = "errorMessage" THEN error_message ELSE item[k]]
       ELSE item

\* a record_event that checks the status only once the item is put
record_event_checking_status_last(tbl, now, session_id, status, table_name, ttl_days, error_message, event_id, fault) ==
  IF session_id = "" \/ ~IsStr(session_id)
    THEN [table |-> tbl, put |-> <<>>,
          raised |-> PyError("ValueError",
                             <<"session_id must be a non-empty string">>)]
  ELSE IF table_name = "" \/ ~IsStr(table_name)
    THEN [table |-> tbl, put |-> <<>>,
          raised |-> PyError("ValueError",
                             <<"table_name must be a non-empty string">>)]
  ELSE LET item == EventItem(now, session_id, status, ttl_days,
                             error_message, event_id)
           r == PutItemIfAbsent(tbl, item, fault)
       IN IF r.raised = NoExc /\ status \notin valid_statuses
            THEN [table |-> r.table, put |-> <<item>>,
                  raised |-> PyError("ValueError",
                                     <<"Invalid status '", status, "'">>)]
            ELSE [table |-> r.table, put |-> <<item>>, raised |-> r.raised]

\* record_event: returns the table after the call, the exception raised
\* (NoExc when it returns normally) and the item it tried to put
record_event(tbl, now, session_id, status, table_name, ttl_days, error_message, event_id, fault) ==
  IF session_id = "" \/ ~IsStr(session_id)
    THEN [table |-> tbl, put |-> <<>>,
          raised |-> PyError("ValueError",
                             <<"session_id must be a non-empty string">>)]
  ELSE IF table_name = "" \/ ~IsStr(table_name)
    THEN [table |-> tbl, put |-> <<>>,
          raised |-> PyError("ValueError",
                             <<"table_name must be a non-empty string">>)]
  ELSE IF status \notin valid_statuses
    THEN [table |-> tbl, put |-> <<>>,
          raised |-> PyError("ValueError",
                             <<"Invalid status '", status, "'">>)]
  ELSE LET item == EventItem(now, session_id, status, ttl_days,
                             error_message, event_id)
           r == PutItemIfAbsent(tbl, item, fault)
       IN [table |-> r.table, put |-> <<item>>, raised |-> r.raised]

\* the empty dict {}
EmptyDict == [k \in {} |-> ""]

\* ------------------------------------------------------------------ state
VARIABLES
  table,      \* the journal table: the set of stored items
  clock,      \* datetime.now(), in milliseconds
  running,    \* the coroutine the event loop is executing, <<>> when none
  inv,        \* inv[i]: the i-th call of invoke
  task,       \* task[i]: the background task the i-th invoke created
  calls,      \* calls[i]: the record_event calls of invoke i and its task
  lastPut,    \* the latest record_event call: the item it put, what it raised
  ncalls,     \* number of record_event or journal calls made so far
  session_cache,  \* _session_cache of src/tools/journal.py
  jtable,     \* the records of the journal tool: the set of stored items
  jlast,      \* the latest journal call: its arguments and what it yielded
  started,    \* the (session, phase) pairs start_task was called for
  status_in,  \* the status handed to validate_event_status
  verdict,    \* what validate_event_status made of it
  hrun        \* the latest run of a Lambda handler or of record_metadata

vars ==
  <<table, clock, running, inv, task, calls, lastPut, ncalls, session_cache,
    jtable, jlast, started, status_in, verdict, hrun>>

agentVars == <<running, inv, task, calls>>

toolVars == <<session_cache, jtable, jlast, started>>

valVars == <<status_in, verdict>>

lamVars == <<hrun>>

Invocations == 1..NumInvocations
Uuids == 1..NumUuids

\* what the journal table can do to a put_item request
ThroughputExceeded ==
  ClientError("ProvisionedThroughputExceededException", <<"Rate exceeded">>,
              "PutItem")

StoreFaults ==
  {ThroughputExceeded, PyError("Exception", <<"Unexpected error">>)}

\* ---------------------------------------- values of src/tools/journal.py
None == "\\None"

\* bool(x) of a str or None
Truthy(x) == x \notin {"", None}

\* a or b
Or(a, b) == IF Truthy(a) THEN a ELSE b

NoTime == 0 - 1

\* class TaskStatus / class SessionStatus: the values the Enum constructor
\* takes
TaskStatus == {"COMPLETED", "FAILED", "CANCELLED", "SKIPPED"}
SessionStatus == {"COMPLETED", "FAILED"}

\* _session_cache as the module is loaded
EmptyCache == [session_id |-> None, start_time |-> NoTime, tasks |-> EmptyDict]

\* no journal call yet
NoJournalCall ==
  [action |-> "", phase_name |-> "", status |-> "", context |-> EmptyDict,
   session_id |-> "", result |-> EmptyDict, raised |-> NoExc]

NoArgs == [session_id |-> "", status |-> "", table_name |-> ""]

NoPut == [put |-> <<>>, raised |-> NoExc, args |-> NoArgs]

\* no record_metadata call
NoMeta == [called |-> FALSE, put |-> <<>>, failed |-> NoExc, raised |-> NoExc]

\* no handler has run yet.  Of a run: fn is the handler, pc where it is,
\* called whether it reached the runtime (invoke_agent_runtime or
\* stop_runtime_session) and call_exc what that call raised, recorded the
\* record_event calls it made, meta its record_metadata call, exc the
\* exception it handles or raised, response what it returned
NoRun ==
  [n |-> 0, fn |-> "", pc |-> "none", session_id |-> "", table_name |-> "",
   ping_status |-> "", called |-> FALSE, call_exc |-> NoExc, recorded |-> <<>>, meta |-> NoMeta,
   exc |-> NoExc, response |-> EmptyDict]

\* the state of a fresh process: nothing stored, nothing called
Quiescent ==
  /\ table = {}
  /\ clock = 0
  /\ running = <<>>
  /\ inv = [i \in Invocations |->
              [pc |-> "idle", session_id |-> "", context_sid |-> "",
               payload |-> EmptyDict, user_message |-> "", exc |-> NoExc,
               sched_exc |-> NoExc, response |-> EmptyDict]]
  /\ task = [i \in Invocations |->
               [pc |-> "none", session_id |-> "", user_message |-> "",
                stage_raised |-> "", stage_exc |-> NoExc, exc |-> NoExc,
                report |-> EmptyDict, result |-> EmptyDict]]
  /\ calls = [i \in Invocations |-> <<>>]
  /\ lastPut = NoPut
  /\ ncalls = 0
  /\ session_cache = EmptyCache
  /\ jtable = {}
  /\ jlast = NoJournalCall
  /\ started = {}
  /\ verdict = <<>>
  /\ hrun = NoRun

Init == Quiescent /\ status_in = <<>>

\* time passes
Tick ==
  /\ clock < MaxClock
  /\ clock' = clock + 1
  /\ UNCHANGED <<toolVars, valVars, lamVars, table, agentVars, lastPut, ncalls>>

\* --------------------------------------------- record_event called directly
RecSessionIds == {"s1", "s2", "", "\\None"}
RecStatuses == {SESSION_INITIATED, AGENT_INVOCATION_FAILED, "NOT_A_STATUS"}
RecTableNames == {"journal-table", "", "\\int"}
RecTtlDays == {90}
RecMessages == {<<>>, <<"Connection timeout">>}

\* any caller (a Lambda handler, the agent runtime) calls record_event
RecordEventCall(session_id, status, table_name, ttl_days, error_message, event_id, fault) ==
  LET r == record_event(table, clock, session_id, status, table_name,
                        ttl_days, error_message, event_id, fault)
  IN /\ ncalls < MaxCalls
     /\ ncalls' = ncalls + 1
     /\ table' = r.table
     /\ lastPut' = [put |-> r.put, raised |-> r.raised,
                    args |-> [session_id |-> session_id, status |-> status,
                              table_name |-> table_name,
                              ttl_days |-> ttl_days]]
     /\ UNCHANGED <<toolVars, valVars, lamVars, clock, agentVars>>

NextRecorder ==
  \/ Tick
  \/ \E session_id \in RecSessionIds, status \in RecStatuses,
        table_name \in RecTableNames, ttl_days \in RecTtlDays,
        error_message \in RecMessages, event_id \in Uuids,
        fault \in {NoExc, ThroughputExceeded} :
       RecordEventCall(session_id, status, table_name, ttl_days,
                       error_message, event_id, fault)

SpecRecorder == Init /\ [][NextRecorder]_vars

\* --------------------------------------------------------- configuration
\* config.journal_table_name, config.ttl_days of the loaded AppConfig
journal_table_name == "journal-table"
ttl_days_default == 90

\* -------------------------------------------------- inputs of the runtime
SessionIds == {"s1", "s2"}

\* RequestContext objects handed to invoke by the runtime
Contexts == {[session_id |-> sid] : sid \in SessionIds}

\* payloads: without a prompt, with a prompt, and one that carries a
\* session_id of its own
Payloads ==
  {EmptyDict, [prompt |-> "hello"], [prompt |-> "hello", session_id |-> "s2"]}

\* dict.get(key, default)
Get(d, key, default) == IF key \in DOMAIN d THEN d[key] ELSE default

\* what asyncio.create_task (or building the coroutine) can raise
SchedErrors == {PyError("Exception", <<"Task creation failed">>)}

\* what load_prompts / create_agent can raise
SetupErrors == {PyError("ValueError", <<"system_prompt is required">>)}

\* what an agent stage can raise
StageErrors ==
  { NoCredentialsError,
    ClientError("ThrottlingException", <<"Rate exceeded">>, "InvokeModel"),
    ClientError("AccessDeniedException", <<"Access denied">>, "InvokeModel"),
    PyError("ValueError", <<"Invalid input">>),
    PyError("RuntimeError", <<"stage 1", " - ", "timed out">>) }

\* the AgentResult objects the two stages can return
AnalysisResponses == {[message |-> "Analysis finished"]}
ReportResponses == {[message |-> "Report generated successfully"]}

\* s.rsplit(" - ", 1)[1]: what follows the last " - "
AfterLastSeparator(s) ==
  LET k == CHOOSE n \in 1..Len(s) :
             s[n] = " - " /\ \A m \in (n + 1)..Len(s) : s[m] # " - "
  IN SubSeq(s, k + 1, Len(s))

\* ------------------------------------------- _handle_background_task_error
\* s.split(" - ", 1)[1]: what follows the first " - "
AfterSeparator(s) ==
  LET k == CHOOSE n \in 1..Len(s) :
             s[n] = " - " /\ \A m \in 1..(n - 1) : s[m] # " - "
  IN SubSeq(s, k + 1, Len(s))

HasSeparator(s) == \E n \in 1..Len(s) : s[n] = " - "

\* the error dict (the record_event call of the function is made by the
\* action that uses it)
error_dict(session_id, error_type, error_message, error_code, error_type_name) ==
  LET keys == {"error", "session_id", "status", "error_message"}
              \cup (IF error_code # "" THEN {"error_code"} ELSE {})
              \cup (IF error_type_name # "" THEN {"error_type"} ELSE {})
  IN [k \in keys |->
        CASE k = "error" -> error_type
          [] k = "session_id" -> session_id
          [] k = "status" -> "failed"
          [] k = "error_code" -> error_code
          [] k = "error_type" -> error_type_name
          [] k = "error_message" ->
               IF error_type \in {"ClientError", "Exception"}
                  /\ HasSeparator(error_message)
                 THEN AfterSeparator(error_message)
                 ELSE error_message]

\* the except clauses with `except Exception` first: it takes every exception
ExceptClauseGenericFirst(e) ==
  [error_type |-> "Exception",
   error_message |-> <<e.cls, " - ">> \o Str(e),
   error_code |-> "", error_type_name |-> e.cls]

\* the except clauses of background_task: the arguments they pass to
\* _handle_background_task_error for exception e
ExceptClause(e) ==
  IF e.cls = "NoCredentialsError"
    THEN [error_type |-> "NoCredentialsError",
          error_message |-> <<"NoCredentialsError", " - ">> \o Str(e),
          error_code |-> "NoCredentialsError", error_type_name |-> ""]
  ELSE IF e.cls = "ClientError"
    THEN [error_type |-> "ClientError",
          error_message |-> <<e.code, " - ">> \o e.msg,
          error_code |-> e.code, error_type_name |-> ""]
  ELSE [error_type |-> "Exception",
        error_message |-> <<e.cls, " - ">> \o Str(e),
        error_code |-> "", error_type_name |-> e.cls]

\* ------------------------------------------------------------------ invoke
\* invoke trusting the payload: payload.get("session_id", context.session_id)
InvokeSessionIdFromPayload(payload, context) ==
  Get(payload, "session_id", context.session_id)

\* session_id = context.session_id
InvokeSessionId(payload, context) == context.session_id

StartedResponse(session_id) ==
  [message |-> <<"Started processing request for session ", session_id,
                 ". Processing will continue in background.">>,
   session_id |-> session_id,
   status |-> "started"]

\* the error response without the exception's text
ErrorResponseWithoutMessage(session_id, e) ==
  [error |-> <<"Error starting background processing">>,
   session_id |-> session_id]

ErrorResponse(session_id, e) ==
  [error |-> <<"Error starting background processing: ">> \o Str(e),
   session_id |-> session_id]

\* one record_event call made by invoke i or its task: the call is logged
Journal(i, by, session_id, status, error_message, r) ==
  /\ table' = r.table
  /\ lastPut' = [put |-> r.put, raised |-> r.raised,
                 args |-> [session_id |-> session_id, status |-> status,
                           table_name |-> journal_table_name]]
  /\ ncalls' = ncalls + 1
  /\ calls' = [calls EXCEPT ![i] =
                 Append(@, [by |-> by, status |-> status,
                            session_id |-> session_id,
                            error_message |-> error_message,
                            put |-> r.put, raised |-> r.raised])]

\* a task that runs as soon as it is created (awaited in place)
CanRunAtOnce(i) == TRUE

\* the event loop gives a created task the processor only when no coroutine
\* is running: invoke has no await between create_task and its return
CanRun(i) == running = <<>>

\* invoke is entered: reads payload and context, records
\* AGENT_RUNTIME_INVOKE_STARTED (outside the try)
InvokeEnter(i, context, payload, event_id, fault) ==
  LET user_message == Get(payload, "prompt", "Hello")
      session_id == InvokeSessionId(payload, context)
      r == record_event(table, clock, session_id,
                        AGENT_RUNTIME_INVOKE_STARTED, journal_table_name,
                        ttl_days_default, <<>>, event_id, fault)
  IN /\ inv[i].pc = "idle"
     /\ \A j \in 1..(i - 1) : inv[j].pc # "idle"
     /\ running = <<>>
     /\ Journal(i, "invoke", session_id, AGENT_RUNTIME_INVOKE_STARTED, <<>>, r)
     /\ inv' = [inv EXCEPT ![i] =
                  [@ EXCEPT !.pc = IF r.raised = NoExc THEN "create_task"
                                                       ELSE "raised",
                            !.session_id = session_id,
                            !.context_sid = context.session_id,
                            !.payload = payload,
                            !.user_message = user_message,
                            !.exc = r.raised]]
     /\ running' = IF r.raised = NoExc THEN <<"invoke", i>> ELSE <<>>
     /\ UNCHANGED <<toolVars, valVars, lamVars, clock, task>>

\* asyncio.create_task(background_task(user_message, session_id))
InvokeCreateTask(i, outcome) ==
  /\ inv[i].pc = "create_task"
  /\ IF outcome = NoExc
       THEN /\ task' = [task EXCEPT ![i] =
                          [@ EXCEPT !.pc = "scheduled",
                                    !.session_id = inv[i].session_id,
                                    !.user_message = inv[i].user_message]]
            /\ inv' = [inv EXCEPT ![i].pc = "record_started"]
       ELSE /\ inv' = [inv EXCEPT ![i] =
                         [@ EXCEPT !.pc = "except", !.exc = outcome,
                                   !.sched_exc = outcome]]
            /\ UNCHANGED task
  /\ UNCHANGED <<toolVars, valVars, lamVars, table, clock, running, calls, lastPut, ncalls>>

\* records AGENT_BACKGROUND_TASK_STARTED and returns the acknowledgement
InvokeRecordStarted(i, event_id, fault) ==
  LET session_id == inv[i].session_id
      r == record_event(table, clock, session_id,
                        AGENT_BACKGROUND_TASK_STARTED, journal_table_name,
                        ttl_days_default, <<>>, event_id, fault)
  IN /\ inv[i].pc = "record_started"
     /\ Journal(i, "invoke", session_id, AGENT_BACKGROUND_TASK_STARTED, <<>>, r)
     /\ IF r.raised = NoExc
          THEN /\ inv' = [inv EXCEPT ![i] =
                            [@ EXCEPT !.pc = "returned",
                                      !.response = StartedResponse(session_id)]]
               /\ running' = <<>>
          ELSE /\ inv' = [inv EXCEPT ![i] =
                            [@ EXCEPT !.pc = "except", !.exc = r.raised]]
               /\ UNCHANGED running
     /\ UNCHANGED <<toolVars, valVars, lamVars, clock, task>>

\* except Exception: records AGENT_RUNTIME_INVOKE_FAILED, returns the error
InvokeExcept(i, event_id, fault) ==
  LET session_id == inv[i].session_id
      e == inv[i].exc
      r == record_event(table, clock, session_id,
                        AGENT_RUNTIME_INVOKE_FAILED, journal_table_name,
                        ttl_days_default, Str(e), event_id, fault)
  IN /\ inv[i].pc = "except"
     /\ Journal(i, "invoke", session_id, AGENT_RUNTIME_INVOKE_FAILED, Str(e), r)
     /\ inv' = [inv EXCEPT ![i] =
                  IF r.raised = NoExc
                    THEN [@ EXCEPT !.pc = "returned",
                                   !.response = ErrorResponse(session_id, e)]
                    ELSE [@ EXCEPT !.pc = "raised", !.exc = r.raised]]
     /\ running' = <<>>
     /\ UNCHANGED <<toolVars, valVars, lamVars, clock, task>>

\* --------------------------------------------------------- background_task
\* the task starts to run: load_prompts and create_agent (before the try),
\* then the analysis agent is called and the task awaits it
TaskStart(i, outcome) ==
  /\ task[i].pc = "scheduled"
  /\ CanRun(i)
  /\ task' = [task EXCEPT ![i] =
                IF outcome = NoExc
                  THEN [@ EXCEPT !.pc = "analysis"]
                  ELSE [@ EXCEPT !.pc = "raised", !.exc = outcome]]
  /\ UNCHANGED <<toolVars, valVars, lamVars, table, clock, running, inv, calls, lastPut, ncalls>>

\* the analysis await with its exception swallowed: the report agent is
\* called whatever the analysis stage did
TaskAnalysisDoneContinues(i, outcome) ==
  /\ task[i].pc = "analysis"
  /\ CanRun(i)
  /\ task' = [task EXCEPT ![i] =
                IF outcome = NoExc
                  THEN [@ EXCEPT !.pc = "report"]
                  ELSE [@ EXCEPT !.pc = "report",
                                 !.stage_raised = "analysis",
                                 !.stage_exc = outcome]]
  /\ UNCHANGED <<toolVars, valVars, lamVars, table, clock, running, inv, calls, lastPut, ncalls>>

\* await analysis_agent.invoke_async(...) ends: it returned, and the report
\* agent is called, or it raised, and an except clause takes over
TaskAnalysisDone(i, outcome) ==
  /\ task[i].pc = "analysis"
  /\ CanRun(i)
  /\ IF outcome = NoExc
       THEN /\ task' = [task EXCEPT ![i].pc = "report"]
            /\ UNCHANGED running
       ELSE /\ task' = [task EXCEPT ![i] =
                          [@ EXCEPT !.pc = "except", !.exc = outcome,
                                    !.stage_raised = "analysis",
                                    !.stage_exc = outcome]]
            /\ running' = <<"task", i>>
  /\ UNCHANGED <<toolVars, valVars, lamVars, table, clock, inv, calls, lastPut, ncalls>>

\* response = await report_agent.invoke_async(...) ends
TaskReportDone(i, outcome, response) ==
  /\ task[i].pc = "report"
  /\ CanRun(i)
  /\ task' = [task EXCEPT ![i] =
                IF outcome = NoExc
                  THEN [@ EXCEPT !.pc = "record_completed",
                                 !.report = response]
                  ELSE [@ EXCEPT !.pc = "except", !.exc = outcome,
                                 !.stage_raised = "report",
                                 !.stage_exc = outcome]]
  /\ running' = <<"task", i>>
  /\ UNCHANGED <<toolVars, valVars, lamVars, table, clock, inv, calls, lastPut, ncalls>>

\* records AGENT_BACKGROUND_TASK_COMPLETED (inside the try), returns response
TaskRecordCompleted(i, event_id, fault) ==
  LET session_id == task[i].session_id
      r == record_event(table, clock, session_id,
                        AGENT_BACKGROUND_TASK_COMPLETED, journal_table_name,
                        ttl_days_default, <<>>, event_id, fault)
  IN /\ task[i].pc = "record_completed"
     /\ Journal(i, "task", session_id, AGENT_BACKGROUND_TASK_COMPLETED, <<>>, r)
     /\ IF r.raised = NoExc
          THEN /\ task' = [task EXCEPT ![i] =
                             [@ EXCEPT !.pc = "returned",
                                       !.result = task[i].report]]
               /\ running' = <<>>
          ELSE /\ task' = [task EXCEPT ![i] =
                             [@ EXCEPT !.pc = "except", !.exc = r.raised]]
               /\ UNCHANGED running
     /\ UNCHANGED <<toolVars, valVars, lamVars, clock, inv>>

\* the error handler returning the error dict without journaling the failure
TaskExceptWithoutEvent(i, event_id, fault) ==
  LET session_id == task[i].session_id
      a == ExceptClause(task[i].exc)
  IN /\ task[i].pc = "except"
     /\ task' = [task EXCEPT ![i] =
                   [@ EXCEPT !.pc = "returned",
                             !.result =
                               error_dict(session_id, a.error_type,
                                          a.error_message, a.error_code,
                                          a.error_type_name)]]
     /\ running' = <<>>
     /\ UNCHANGED <<toolVars, valVars, lamVars, table, clock, inv, calls, lastPut, ncalls>>

\* an except clause runs _handle_background_task_error: records
\* AGENT_BACKGROUND_TASK_FAILED and returns the error dict
TaskExcept(i, event_id, fault) ==
  LET session_id == task[i].session_id
      a == ExceptClause(task[i].exc)
      r == record_event(table, clock, session_id,
                        AGENT_BACKGROUND_TASK_FAILED, journal_table_name,
                        ttl_days_default, a.error_message, event_id, fault)
  IN /\ task[i].pc = "except"
     /\ Journal(i, "task", session_id, AGENT_BACKGROUND_TASK_FAILED,
                a.error_message, r)
     /\ task' = [task EXCEPT ![i] =
                   IF r.raised = NoExc
                     THEN [@ EXCEPT !.pc = "returned",
                                    !.result =
                                      error_dict(session_id, a.error_type,
                                                 a.error_message,
                                                 a.error_code,
                                                 a.error_type_name)]
                     ELSE [@ EXCEPT !.pc = "raised", !.exc = r.raised]]
     /\ running' = <<>>
     /\ UNCHANGED <<toolVars, valVars, lamVars, clock, inv>>

\* ------------------------------------------------------------ the runtime
Faults == StoreFaults \cup {NoExc}

\* uuid.uuid4() inside the runtime: a value no earlier call has drawn
FreshEventId == ncalls + 1

\* one invocation of the runtime and its background task, under every
\* failure of the journal table, of scheduling and of the stages
Next ==
  \/ Tick
  \/ \E context \in Contexts, payload \in Payloads, fault \in Faults :
       InvokeEnter(1, context, payload, FreshEventId, fault)
  \/ \E outcome \in SchedErrors \cup {NoExc} : InvokeCreateTask(1, outcome)
  \/ \E fault \in Faults : InvokeRecordStarted(1, FreshEventId, fault)
  \/ \E fault \in Faults : InvokeExcept(1, FreshEventId, fault)
  \/ \E outcome \in SetupErrors \cup {NoExc} : TaskStart(1, outcome)
  \/ \E outcome \in StageErrors \cup {NoExc} : TaskAnalysisDone(1, outcome)
  \/ \E outcome \in StageErrors \cup {NoExc}, response \in ReportResponses :
       TaskReportDone(1, outcome, response)
  \/ \E fault \in Faults : TaskRecordCompleted(1, FreshEventId, fault)
  \/ \E fault \in Faults : TaskExcept(1, FreshEventId, fault)

Spec == Init /\ [][Next]_vars

\* several invocations share the event loop and the journal table; the
\* table serves every request and all of it happens within one millisecond
\* (the timestamp only enters the sort key, which the event id keeps unique)
ConcurrentPayloads ==
  {[prompt |-> "hello"], [prompt |-> "hello", session_id |-> "s2"]}

ConcurrentStageErrors ==
  {ClientError("ThrottlingException", <<"Rate exceeded">>, "InvokeModel")}

NextConcurrent ==
  \/ \E i \in Invocations, context \in Contexts,
        payload \in ConcurrentPayloads :
       InvokeEnter(i, context, payload, FreshEventId, NoExc)
  \/ \E i \in Invocations, outcome \in SchedErrors \cup {NoExc} :
       InvokeCreateTask(i, outcome)
  \/ \E i \in Invocations : InvokeRecordStarted(i, FreshEventId, NoExc)
  \/ \E i \in Invocations : InvokeExcept(i, FreshEventId, NoExc)
  \/ \E i \in Invocations, outcome \in SetupErrors \cup {NoExc} :
       TaskStart(i, outcome)
  \/ \E i \in Invocations, outcome \in ConcurrentStageErrors \cup {NoExc} :
       TaskAnalysisDone(i, outcome)
  \/ \E i \in Invocations, outcome \in ConcurrentStageErrors \cup {NoExc},
        response \in ReportResponses :
       TaskReportDone(i, outcome, response)
  \/ \E i \in Invocations : TaskRecordCompleted(i, FreshEventId, NoExc)
  \/ \E i \in Invocations : TaskExcept(i, FreshEventId, NoExc)

SpecConcurrent == Init /\ [][NextConcurrent]_vars

\* ======================================================== the journal tool
\* src/tools/journal.py.  The tool keeps its own records in the table named
\* by JOURNAL_TABLE_NAME under the key (session_id, record_type); a
\* record_type "SESSION" is <<"SESSION">>, f"TASK#{timestamp}" is
\* <<"TASK", timestamp>>.  An isoformat timestamp is the integer `now`; a
\* start_time that is None or "" is NoTime.

\* d.update(e)
Update(d, e) ==
  [k \in DOMAIN d \cup DOMAIN e |-> IF k \in DOMAIN e THEN e[k] ELSE d[k]]

create_error_response(now, error_message, additional_context) ==
  Update([success |-> FALSE, error |-> error_message, timestamp |-> now],
         additional_context)

\* _create_timestamp_and_ttl: the ttl
create_ttl(now) == (now \div 1000) + (30 * 24 * 60 * 60)

\* _calculate_duration: whole seconds since start_time, 0 when start_time
\* does not parse
calculate_duration(now, start_time) ==
  IF start_time = NoTime THEN 0 ELSE (now - start_time) \div 1000

\* _handle_dynamodb_error
handle_dynamodb_error(now, operation, error, context) ==
  create_error_response(
    now, <<"Failed to ", operation, ": ", error.code, ": ">> \o error.msg,
    context)

\* except Exception as e: the response of the outer handler
unexpected_error(now, e) ==
  create_error_response(now, <<"Unexpected error: ">> \o Str(e), EmptyDict)

SameRecord(a, b) ==
  a["session_id"] = b["session_id"] /\ a["record_type"] = b["record_type"]

\* table.put_item(Item=item): the item replaces a stored one with its key
put_item(tbl, item, fault) ==
  IF fault # NoExc
    THEN [table |-> tbl, raised |-> fault]
    ELSE [table |-> {it \in tbl : ~SameRecord(it, item)} \cup {item},
          raised |-> NoExc]

\* table.update_item(Key, SET ...): sets the attributes of the item with the
\* key, creating the item when there is none
update_item(tbl, key, values, fault) ==
  IF fault # NoExc
    THEN [table |-> tbl, raised |-> fault]
    ELSE [table |-> {it \in tbl : ~SameRecord(it, key)}
                    \cup {Update(IF \E it \in tbl : SameRecord(it, key)
                                   THEN CHOOSE it \in tbl : SameRecord(it, key)
                                   ELSE key,
                                 values)},
          raised |-> NoExc]

\* _update_dynamodb_item: the attributes the update sets
update_values(status, end_time, duration, error_message) ==
  Update([status |-> status, end_time |-> end_time,
          duration_seconds |-> duration],
         IF error_message # <<>> THEN [error_message |-> error_message]
                                 ELSE EmptyDict)

\* what one journal call yields: the cache and the table after it, and the
\* dictionary it returns
Yield(cache, tbl, result) == [cache |-> cache, table |-> tbl, result |-> result]

\* how a failed store request ends a call: `except ClientError` inside,
\* `except Exception` outside
store_error(now, operation, e, context) ==
  IF e.cls = "ClientError"
    THEN handle_dynamodb_error(now, operation, e, context)
    ELSE unexpected_error(now, e)

\* _get_session_id: from the invocation state, else from the cache
get_session_id(cache, tool_context) ==
  Or(Get(tool_context, "session_id", None), cache.session_id)

\* _start_session
start_session(cache, tbl, now, tool_context, table_name, fault) ==
  LET session_id == Get(tool_context, "session_id", None)
      cached == [session_id |-> session_id, start_time |-> now,
                 tasks |-> EmptyDict]
      item == [session_id |-> session_id, record_type |-> <<"SESSION">>,
               timestamp |-> now, ttl |-> create_ttl(now),
               status |-> "STARTED", start_time |-> now]
      r == put_item(tbl, item, fault)
  IN IF ~Truthy(session_id)
       THEN Yield(cache, tbl,
                  create_error_response(
                    now, <<"session_id not found in invocation state">>,
                    EmptyDict))
     ELSE IF ~Truthy(table_name)
       THEN Yield(cache, tbl,
                  create_error_response(now, <<"JOURNAL_TABLE_NAME not set">>,
                                        EmptyDict))
     ELSE IF r.raised # NoExc
       THEN Yield(cached, tbl,
                  store_error(now, "create session", r.raised,
                              [session_id |-> session_id]))
     ELSE Yield(cached, r.table,
                [success |-> TRUE, session_id |-> session_id,
                 start_time |-> now, status |-> "STARTED",
                 timestamp |-> now])

\* _start_task
start_task(cache, tbl, now, tool_context, phase_name, table_name, fault) ==
  LET session_id == get_session_id(cache, tool_context)
      record_type == <<"TASK", now>>
      cached == [cache EXCEPT !.tasks =
                   Update(@, [k \in {phase_name} |->
                                [record_type |-> record_type,
                                 start_time |-> now,
                                 session_id |-> session_id]])]
      item == [session_id |-> session_id, record_type |-> record_type,
               timestamp |-> now, ttl |-> create_ttl(now),
               status |-> "IN_PROGRESS", phase_name |-> phase_name,
               start_time |-> now]
      r == put_item(tbl, item, fault)
  IN IF ~Truthy(phase_name)
       THEN Yield(cache, tbl,
                  create_error_response(now, <<"phase_name is required">>,
                                        EmptyDict))
     ELSE IF ~Truthy(session_id)
       THEN Yield(cache, tbl,
                  create_error_response(
                    now,
                    <<"No active session found. Call start_session() first.">>,
                    [error_type |-> "NO_SESSION"]))
     ELSE IF ~Truthy(table_name)
       THEN Yield(cache, tbl,
                  create_error_response(now, <<"JOURNAL_TABLE_NAME not set">>,
                                        EmptyDict))
     ELSE IF r.raised # NoExc
       THEN Yield(cached, tbl,
                  store_error(now, "create task", r.raised,
                              [session_id |-> session_id,
                               phase_name |-> phase_name]))
     ELSE Yield(cached, r.table,
                [success |-> TRUE, session_id |-> session_id,
                 phase_name |-> phase_name, status |-> "IN_PROGRESS",
                 timestamp |-> now])

\* no task info: None
NoTask == EmptyDict

\* _find_task_by_phase: the first TASK# record of the session, in key order,
\* that carries the phase name; None when there is none, when the table name
\* is missing or when the query fails
find_task_by_phase(tbl, session_id, phase_name, table_name, fault) ==
  LET found == {it \in tbl :
                  /\ it["session_id"] = session_id
                  /\ it["record_type"][1] = "TASK"
                  /\ Get(it, "phase_name", None) = phase_name}
      first == CHOOSE it \in found :
                 \A o \in found : it["record_type"][2] <= o["record_type"][2]
  IN IF ~Truthy(table_name) \/ fault # NoExc \/ found = {}
       THEN NoTask
       ELSE [record_type |-> first["record_type"],
             start_time |-> Get(first, "start_time", NoTime)]

\* the cached task info taken whatever session started the task
cached_task_of_any_session(cache, session_id, phase_name) ==
  Get(cache.tasks, phase_name, NoTask)

\* the cached task info of a phase, when the cache has one of this session
cached_task(cache, session_id, phase_name) ==
  LET task_info == Get(cache.tasks, phase_name, NoTask)
  IN IF task_info = NoTask \/ task_info.session_id # session_id
       THEN NoTask
       ELSE task_info

\* _complete_task; query_fault is what the table does to the query of
\* _find_task_by_phase, fault what it does to update_item
complete_task(cache, tbl, now, tool_context, phase_name, status, error_message, table_name, query_fault, fault) ==
  LET session_id == get_session_id(cache, tool_context)
      cached == cached_task(cache, session_id, phase_name)
      task_info == IF cached = NoTask
                     THEN find_task_by_phase(tbl, session_id, phase_name,
                                             table_name, query_fault)
                     ELSE cached
      duration_seconds == calculate_duration(now, task_info.start_time)
      r == update_item(tbl,
                       [session_id |-> session_id,
                        record_type |-> task_info.record_type],
                       update_values(status, now, duration_seconds,
                                     error_message),
                       fault)
  IN IF ~Truthy(phase_name)
       THEN Yield(cache, tbl,
                  create_error_response(now, <<"phase_name is required">>,
                                        EmptyDict))
     ELSE IF ~Truthy(session_id)
       THEN Yield(cache, tbl,
                  create_error_response(now, <<"No active session found.">>,
                                        [error_type |-> "NO_SESSION"]))
     ELSE IF task_info = NoTask
       THEN Yield(cache, tbl,
                  create_error_response(
                    now,
                    <<"Task '", phase_name, "' not found for session '",
                      session_id, "'. Call start_task() first.">>,
                    [error_type |-> "TASK_NOT_FOUND",
                     phase_name |-> phase_name,
                     session_id |-> session_id]))
     ELSE IF ~Truthy(table_name)
       THEN Yield(cache, tbl,
                  create_error_response(now, <<"JOURNAL_TABLE_NAME not set">>,
                                        EmptyDict))
     ELSE IF r.raised # NoExc
       THEN Yield(cache, tbl,
                  store_error(now, "update task", r.raised,
                              [session_id |-> session_id,
                               phase_name |-> phase_name]))
     ELSE Yield(cache, r.table,
                [success |-> TRUE, session_id |-> session_id,
                 phase_name |-> phase_name, status |-> status,
                 duration_seconds |-> duration_seconds, timestamp |-> now])

\* _complete_session; query_fault is what the table does to get_item
complete_session(cache, tbl, now, tool_context, status, error_message, table_name, query_fault, fault) ==
  LET session_id == get_session_id(cache, tool_context)
      stored == {it \in tbl : /\ it["session_id"] = session_id
                             /\ it["record_type"] = <<"SESSION">>}
      start_time ==
        IF cache.start_time # NoTime THEN cache.start_time
        ELSE IF ~Truthy(table_name) \/ query_fault # NoExc \/ stored = {}
          THEN NoTime
          ELSE Get(CHOOSE it \in stored : TRUE, "start_time", NoTime)
      duration_seconds == calculate_duration(now, start_time)
      r == update_item(tbl,
                       [session_id |-> session_id,
                        record_type |-> <<"SESSION">>],
                       update_values(status, now, duration_seconds,
                                     error_message),
                       fault)
  IN IF ~Truthy(session_id)
       THEN Yield(cache, tbl,
                  create_error_response(now, <<"No active session found.">>,
                                        [error_type |-> "NO_SESSION"]))
     ELSE IF start_time = NoTime
       THEN Yield(cache, tbl,
                  create_error_response(
                    now,
                    <<"Session start_time not found for session '",
                      session_id, "'">>,
                    [session_id |-> session_id]))
     ELSE IF ~Truthy(table_name)
       THEN Yield(cache, tbl,
                  create_error_response(now, <<"JOURNAL_TABLE_NAME not set">>,
                                        EmptyDict))
     ELSE IF r.raised # NoExc
       THEN Yield(cache, tbl,
                  store_error(now, "update session", r.raised,
                              [session_id |-> session_id]))
     ELSE Yield(EmptyCache, r.table,
                [success |-> TRUE, session_id |-> session_id,
                 status |-> status, duration_seconds |-> duration_seconds,
                 timestamp |-> now])

\* Enum(value) of a value that is no member
EnumValueError(status, enum) ==
  PyError("ValueError", <<"'", status, "' is not a valid ", enum>>)

\* a call that raised: the cache and the table are as they were
Raise(cache, tbl, e) ==
  [cache |-> cache, table |-> tbl, result |-> EmptyDict, raised |-> e]

\* a call that returned
Return(y) ==
  [cache |-> y.cache, table |-> y.table, result |-> y.result, raised |-> NoExc]

\* journal(action, tool_context, phase_name, status, error_message)
journal(cache, tbl, now, action, tool_context, phase_name, status, error_message, table_name, query_fault, fault) ==
  IF action = "start_session"
    THEN Return(start_session(cache, tbl, now, tool_context, table_name,
                              fault))
  ELSE IF action = "start_task"
    THEN IF ~Truthy(phase_name)
           THEN Return(Yield(cache, tbl,
                  create_error_response(
                    now, <<"phase_name is required for start_task action">>,
                    EmptyDict)))
           ELSE Return(start_task(cache, tbl, now, tool_context, phase_name,
                                  table_name, fault))
  ELSE IF action = "complete_task"
    THEN IF ~Truthy(phase_name)
           THEN Return(Yield(cache, tbl,
                  create_error_response(
                    now,
                    <<"phase_name is required for complete_task action">>,
                    EmptyDict)))
         ELSE IF Truthy(status) /\ status \notin TaskStatus
           THEN Raise(cache, tbl, EnumValueError(status, "TaskStatus"))
         ELSE Return(complete_task(cache, tbl, now, tool_context, phase_name,
                                   Or(status, "COMPLETED"), error_message,
                                   table_name, query_fault, fault))
  ELSE IF action = "complete_session"
    THEN IF Truthy(status) /\ status \notin SessionStatus
           THEN Raise(cache, tbl, EnumValueError(status, "SessionStatus"))
           ELSE Return(complete_session(cache, tbl, now, tool_context,
                                        Or(status, "COMPLETED"),
                                        error_message, table_name,
                                        query_fault, fault))
  ELSE Return(Yield(cache, tbl,
                    create_error_response(now, <<"Unknown action: ", action>>,
                                          EmptyDict)))

\* ------------------------------------------------ inputs of the journal tool
\* tool_context.invocation_state
ToolContexts == {EmptyDict, [session_id |-> "s1"], [session_id |-> "s2"]}

\* phase_name: omitted (None) or given
PhaseNames == {None, "Discovery"}

\* status: omitted, a member of both enums, a member of TaskStatus only, no
\* member
StatusArgs == {None, "FAILED", "SKIPPED", "INVALID_STATUS"}

ErrorMessages == {<<>>, <<"Processing error">>}

\* os.environ.get("JOURNAL_TABLE_NAME", "")
EnvTableNames == {"journal-table", ""}

\* what the table can do to a put_item / update_item, and to a query
ToolFaults ==
  {NoExc, ThroughputExceeded,
   PyError("Exception", <<"Database connection error">>)}

QueryFaults == {NoExc, ThroughputExceeded}

\* the agent calls the tool: the whole of journal() runs, it is synchronous
JournalCall(action, tool_context, phase_name, status, error_message, table_name, query_fault, fault) ==
  LET r == journal(session_cache, jtable, clock, action, tool_context,
                   phase_name, status, error_message, table_name,
                   query_fault, fault)
      session_id == get_session_id(session_cache, tool_context)
  IN /\ ncalls < MaxCalls
     /\ ncalls' = ncalls + 1
     /\ session_cache' = r.cache
     /\ jtable' = r.table
     /\ jlast' = [action |-> action, phase_name |-> phase_name,
                  status |-> status, context |-> tool_context,
                  session_id |-> session_id,
                  result |-> r.result, raised |-> r.raised]
     /\ started' = IF /\ action = "start_task"
                      /\ Truthy(phase_name) /\ Truthy(session_id)
                     THEN started \cup {<<session_id, phase_name>>}
                     ELSE started
     /\ UNCHANGED <<table, clock, agentVars, lastPut, valVars, lamVars>>

NextJournal ==
  \/ Tick
  \/ \E tool_context \in ToolContexts, table_name \in EnvTableNames,
        fault \in ToolFaults :
       JournalCall("start_session", tool_context, None, None, <<>>,
                   table_name, NoExc, fault)
  \/ \E tool_context \in ToolContexts, phase_name \in PhaseNames,
        table_name \in EnvTableNames, fault \in ToolFaults :
       JournalCall("start_task", tool_context, phase_name, None, <<>>,
                   table_name, NoExc, fault)
  \/ \E tool_context \in ToolContexts, phase_name \in PhaseNames,
        status \in StatusArgs, error_message \in ErrorMessages,
        table_name \in EnvTableNames, query_fault \in QueryFaults,
        fault \in ToolFaults :
       JournalCall("complete_task", tool_context, phase_name, status,
                   error_message, table_name, query_fault, fault)
  \/ \E tool_context \in ToolContexts, status \in StatusArgs,
        error_message \in ErrorMessages, table_name \in EnvTableNames,
        query_fault \in QueryFaults, fault \in ToolFaults :
       JournalCall("complete_session", tool_context, None, status,
                   error_message, table_name, query_fault, fault)
  \/ \E tool_context \in ToolContexts :
       JournalCall("invalid_action", tool_context, "Discovery", None, <<>>,
                   "journal-table", NoExc, NoExc)

SpecJournal == Init /\ [][NextJournal]_vars

\* ===================================================== the event validator
\* src/shared/event_validation.py.  A status handed to the validator is a
\* sequence of tokens, each a piece of text; the status is their
\* concatenation.  The tokens are chosen so that the text begins with
\* "TASK_" only when the first token is "TASK_" and ends with "_STARTED", ...
\* only when the last token is that suffix.
MaxStatusTokens == 4

MAX_PHASE_NAME_LENGTH == 50

\* a phase name of MAX_PHASE_NAME_LENGTH characters
Long50 == "xxxxxxxxxxxxxxxxxxxxxxxxxxxxxxxxxxxxxxxxxxxxxxxxxx"

RECURSIVE Join(_)
Join(s) == IF s = <<>> THEN "" ELSE Head(s) \o Join(Tail(s))

\* len() of the text of a token sequence
RECURSIVE CharLen(_)
CharLen(s) == IF s = <<>> THEN 0 ELSE Len(Head(s)) + CharLen(Tail(s))

\* the tokens made of characters of [A-Za-z0-9_-] only
SafeTokens ==
  {"TASK_", "_STARTED", "_COMPLETED", "_FAILED", "_CANCELLED", "_SKIPPED",
   "A", "_", Long50, SESSION_INITIATED}

\* the other tokens: a space, a newline
UnsafeTokens == {" ", "\n"}

\* the tokens of the statuses handed to the validator
StatusTokens ==
  {"TASK_", "_STARTED", "_COMPLETED", "_CANCELLED", "_SKIPPED", "A", Long50,
   SESSION_INITIATED, " ", "\n"}

StatusInputs ==
  UNION {[1..n -> StatusTokens] : n \in 0..MaxStatusTokens}

\* the suffixes DYNAMIC_STATUS_PATTERN lists
PatternSuffixes == {"_STARTED", "_COMPLETED", "_FAILED"}

\* the text a `$` of the pattern ends at: the end of the string, or just
\* before a newline that ends the string
BeforeFinalNewline(s) ==
  IF s # <<>> /\ s[Len(s)] = "\n" THEN SubSeq(s, 1, Len(s) - 1) ELSE s

\* PHASE_NAME_PATTERN.match(phase_name): ^[A-Za-z0-9_-]+$
PHASE_NAME_PATTERN(phase_name) ==
  /\ phase_name # <<>>
  /\ \A n \in 1..Len(phase_name) : phase_name[n] \in SafeTokens

\* DYNAMIC_STATUS_PATTERN.match(status):
\* ^TASK_([A-Za-z0-9_-]+)_(STARTED|COMPLETED|FAILED)$ ; group(1) is the phase
DYNAMIC_STATUS_PATTERN(status) ==
  LET text == BeforeFinalNewline(status)
      phase == SubSeq(text, 2, Len(text) - 1)
  IN IF /\ Len(text) >= 3
        /\ text[1] = "TASK_"
        /\ text[Len(text)] \in PatternSuffixes
        /\ \A n \in 1..Len(phase) : phase[n] \in SafeTokens
       THEN [matched |-> TRUE, phase |-> phase]
       ELSE [matched |-> FALSE, phase |-> <<>>]

\* validate_event_status: the exception it raises, NoExc when it returns
validate_event_status(status, valid_predefined_statuses) ==
  LET match == DYNAMIC_STATUS_PATTERN(status)
      phase_name == match.phase
  IN IF Join(status) \in valid_predefined_statuses
       THEN NoExc
     ELSE IF ~match.matched
       THEN PyError("ValueError",
                    <<"Invalid status '", Join(status),
                      "'. Must be a predefined status or match pattern ",
                      "TASK_{phase}_{STARTED|COMPLETED|FAILED}">>)
     ELSE IF CharLen(phase_name) > MAX_PHASE_NAME_LENGTH
       THEN PyError("ValueError",
                    <<"Invalid status '", Join(status), "'. Phase name '",
                      Join(phase_name), "' exceeds maximum length of ",
                      "50", " characters">>)
     ELSE IF ~PHASE_NAME_PATTERN(phase_name)
       THEN PyError("ValueError",
                    <<"Invalid status '", Join(status), "'. Phase name '",
                      Join(phase_name), "' contains invalid characters. ",
                      "Only A-Z, a-z, 0-9, underscore, and dash are allowed">>)
     ELSE NoExc

\* the predefined sets a caller passes: none, the set of record_event
PredefinedSets == {{}, valid_statuses}

\* a caller validates the status
ValidateStatus(valid_predefined_statuses) ==
  /\ verdict = <<>>
  /\ verdict' = <<[predefined |-> valid_predefined_statuses,
                   raised |-> validate_event_status(
                                status_in, valid_predefined_statuses)]>>
  /\ UNCHANGED <<table, clock, agentVars, lastPut, ncalls, toolVars, lamVars,
               status_in>>

\* a caller records an event with the status
RecordStatus(session_id) ==
  LET status == Join(status_in)
      r == record_event(table, clock, session_id, status, journal_table_name,
                        ttl_days_default, <<>>, FreshEventId, NoExc)
  IN /\ verdict # <<>>
     /\ ncalls = 0
     /\ ncalls' = ncalls + 1
     /\ table' = r.table
     /\ lastPut' = [put |-> r.put, raised |-> r.raised,
                    args |-> [session_id |-> session_id, status |-> status,
                              table_name |-> journal_table_name]]
     /\ UNCHANGED <<clock, agentVars, toolVars, valVars, lamVars>>

InitValidator == Quiescent /\ status_in \in StatusInputs

NextValidator ==
  \/ \E valid_predefined_statuses \in PredefinedSets :
       ValidateStatus(valid_predefined_statuses)
  \/ \E session_id \in SessionIds : RecordStatus(session_id)

SpecValidator == InitValidator /\ [][NextValidator]_vars

\* the steps the event loop takes on its own: every statement of invoke and
\* of background_task but the two awaits of a stage
LiveCodeSteps ==
  \/ \E outcome \in SchedErrors \cup {NoExc} : InvokeCreateTask(1, outcome)
  \/ InvokeRecordStarted(1, FreshEventId, NoExc)
  \/ InvokeExcept(1, FreshEventId, NoExc)
  \/ TaskStart(1, NoExc)
  \/ TaskRecordCompleted(1, FreshEventId, NoExc)
  \/ TaskExcept(1, FreshEventId, NoExc)

\* an awaited stage ends when the agent's loop ends: it returns or raises
LiveStageEnds ==
  \/ \E outcome \in StageErrors \cup {NoExc} : TaskAnalysisDone(1, outcome)
  \/ \E outcome \in StageErrors \cup {NoExc}, response \in ReportResponses :
       TaskReportDone(1, outcome, response)

NextLive ==
  \/ Tick
  \/ \E context \in Contexts, payload \in Payloads :
       InvokeEnter(1, context, payload, FreshEventId, NoExc)
  \/ LiveCodeSteps
  \/ LiveStageEnds

\* one invocation whose journal writes are all served and whose agents are
\* built; the event loop runs every coroutine that is ready (weak fairness
\* of the code's steps).  background_task awaits invoke_async bare, without
\* asyncio.wait_for or any other deadline, so nothing in the program makes
\* an awaited stage end: LiveStageEnds has no fairness.
SpecLive == Init /\ [][NextLive]_vars /\ WF_vars(LiveCodeSteps)

\* ===================================================== the Lambda handlers
\* src/shared/record_metadata.py and infra/lambda/*.py.  A handler runs in
\* its own process; its record_event and record_metadata calls go to the
\* journal table.

\* class EventStatus: the attributes it defines
EventStatusAttributes ==
  {SESSION_INITIATED, AGENT_INVOCATION_STARTED, AGENT_INVOCATION_SUCCEEDED,
   AGENT_INVOCATION_FAILED, AGENT_RUNTIME_INVOKE_STARTED,
   AGENT_RUNTIME_INVOKE_FAILED, AGENT_BACKGROUND_TASK_STARTED,
   AGENT_BACKGROUND_TASK_COMPLETED, AGENT_BACKGROUND_TASK_FAILED}

\* EventStatus.<name>: the value, or the AttributeError of a name the class
\* does not define
EventStatus(name) ==
  IF name \in EventStatusAttributes
    THEN [value |-> name, raised |-> NoExc]
    ELSE [value |-> None,
          raised |-> PyError("AttributeError",
                             <<"type object 'EventStatus' has no attribute '",
                               name, "'">>)]

\* an item whose expiry is counted from the instant in milliseconds
MetadataItemInMilliseconds(now, session_id, ttl_days) ==
  [k \in {"PK", "SK", "sessionId", "createdAt", "ttlSeconds"} |->
     CASE k = "PK" -> <<"SESSION", session_id>>
       [] k = "SK" -> <<"METADATA", now>>
       [] k = "sessionId" -> session_id
       [] k = "createdAt" -> now
       [] k = "ttlSeconds" -> now + (ttl_days * 24 * 60 * 60)]

\* the item record_metadata builds
MetadataItem(now, session_id, ttl_days) ==
  LET timestamp == now
      ttl_seconds == (now \div 1000) + (ttl_days * 24 * 60 * 60)
  IN [k \in {"PK", "SK", "sessionId", "createdAt", "ttlSeconds"} |->
        CASE k = "PK" -> <<"SESSION", session_id>>
          [] k = "SK" -> <<"METADATA", timestamp>>
          [] k = "sessionId" -> session_id
          [] k = "createdAt" -> timestamp
          [] k = "ttlSeconds" -> ttl_seconds]

\* a put_item that replaced whatever the table holds under the item's
\* partition key
PutItemKeyedBySession(tbl, item, fault) ==
  IF fault # NoExc
    THEN [table |-> tbl, raised |-> fault]
    ELSE [table |-> {it \in tbl : it["PK"] # item["PK"]} \cup {item},
          raised |-> NoExc]

\* table.put_item(Item=item) without a condition: the item replaces a
\* stored one with its primary key
PutItem(tbl, item, fault) ==
  IF fault # NoExc
    THEN [table |-> tbl, raised |-> fault]
    ELSE [table |-> {it \in tbl : ~SameKey(it, item)} \cup {item},
          raised |-> NoExc]

\* a record_metadata that lets the exception of the write through
record_metadata_raising(tbl, now, session_id, table_name, ttl_days, fault) ==
  IF session_id = "" \/ ~IsStr(session_id)
    THEN [table |-> tbl, called |-> TRUE, put |-> <<>>, failed |-> NoExc,
          raised |-> PyError("ValueError",
                             <<"session_id must be a non-empty string">>)]
  ELSE IF table_name = "" \/ ~IsStr(table_name)
    THEN [table |-> tbl, called |-> TRUE, put |-> <<>>, failed |-> NoExc,
          raised |-> PyError("ValueError",
                             <<"table_name must be a non-empty string">>)]
  ELSE LET item == MetadataItem(now, session_id, ttl_days)
           r == PutItem(tbl, item, fault)
       IN [table |-> r.table, called |-> TRUE, put |-> <<item>>,
           failed |-> r.raised, raised |-> r.raised]

\* record_metadata: the table after the call, the item it put, the exception
\* its `except Exception` swallowed (failed) and the one it raised
record_metadata(tbl, now, session_id, table_name, ttl_days, fault) ==
  IF session_id = "" \/ ~IsStr(session_id)
    THEN [table |-> tbl, called |-> TRUE, put |-> <<>>, failed |-> NoExc,
          raised |-> PyError("ValueError",
                             <<"session_id must be a non-empty string">>)]
  ELSE IF table_name = "" \/ ~IsStr(table_name)
    THEN [table |-> tbl, called |-> TRUE, put |-> <<>>, failed |-> NoExc,
          raised |-> PyError("ValueError",
                             <<"table_name must be a non-empty string">>)]
  ELSE LET item == MetadataItem(now, session_id, ttl_days)
           r == PutItem(tbl, item, fault)
       IN [table |-> r.table, called |-> TRUE, put |-> <<item>>,
           failed |-> r.raised, raised |-> NoExc]

\* what record_metadata leaves in hrun
MetaOf(m) ==
  [called |-> m.called, put |-> m.put, failed |-> m.failed,
   raised |-> m.raised]

\* one record_event call as a handler's run keeps it
Recorded(session_id, status, table_name, error_message, r) ==
  [session_id |-> session_id, status |-> status, table_name |-> table_name,
   error_message |-> error_message, put |-> r.put, raised |-> r.raised]

\* the record_event calls of a step reach the table's log
LogRecorded(new) ==
  /\ ncalls' = ncalls + Len(new)
  /\ lastPut' = IF new = <<>>
                  THEN lastPut
                  ELSE LET c == new[Len(new)]
                       IN [put |-> c.put, raised |-> c.raised,
                           args |-> [session_id |-> c.session_id,
                                     status |-> c.status,
                                     table_name |-> c.table_name]]

\* a Lambda function is invoked when the previous run has ended
HandlerIdle ==
  /\ hrun.pc \in {"none", "returned", "raised"}
  /\ hrun.n < MaxRuns

NewRun(fn) == [NoRun EXCEPT !.n = hrun.n + 1, !.fn = fn]

\* -------------------------------------------------- session_initializer.py
\* a handler that answers 200 whatever record_event did
session_initializer_answering_always(tbl, now, event, table_name, meta_fault, event_id, fault) ==
  LET session_id == Get(event, "session_id", None)
      m == record_metadata(tbl, now, session_id, table_name,
                           ttl_days_default, meta_fault)
      r == record_event(m.table, now, session_id, SESSION_INITIATED,
                        table_name, ttl_days_default, <<>>, event_id, fault)
      run == [NewRun("session_initializer") EXCEPT
                !.session_id = session_id, !.table_name = table_name]
  IN IF ~Truthy(session_id) \/ ~Truthy(table_name) \/ m.raised # NoExc
       THEN [table |-> tbl,
             run |-> [run EXCEPT
                        !.pc = "raised",
                        !.exc = PyError("ValueError",
                                  <<"session_id is required in event payload">>)]]
       ELSE [table |-> r.table,
             run |-> [run EXCEPT
                        !.pc = "returned", !.meta = MetaOf(m),
                        !.recorded = <<Recorded(session_id, SESSION_INITIATED,
                                                table_name, <<>>, r)>>,
                        !.response = [statusCode |-> 200,
                                      session_id |-> session_id]]]

\* handler(event, context): the run it makes and the table it leaves
session_initializer(tbl, now, event, table_name, meta_fault, event_id, fault) ==
  LET session_id == Get(event, "session_id", None)
      m == record_metadata(tbl, now, session_id, table_name,
                           ttl_days_default, meta_fault)
      r == record_event(m.table, now, session_id, SESSION_INITIATED,
                        table_name, ttl_days_default, <<>>, event_id, fault)
      run == [NewRun("session_initializer") EXCEPT
                !.session_id = session_id, !.table_name = table_name]
  IN IF ~Truthy(session_id)
       THEN [table |-> tbl,
             run |-> [run EXCEPT
                        !.pc = "raised",
                        !.exc = PyError("ValueError",
                                  <<"session_id is required in event payload">>)]]
     ELSE IF ~Truthy(table_name)
       THEN [table |-> tbl,
             run |-> [run EXCEPT
                        !.pc = "raised",
                        !.exc = PyError("ValueError",
                                  <<"JOURNAL_TABLE_NAME environment variable is required">>)]]
     ELSE IF m.raised # NoExc
       THEN [table |-> m.table,
             run |-> [run EXCEPT !.pc = "raised", !.meta = MetaOf(m),
                                 !.exc = m.raised]]
     ELSE IF r.raised # NoExc
       THEN [table |-> r.table,
             run |-> [run EXCEPT
                        !.pc = "raised", !.meta = MetaOf(m),
                        !.recorded = <<Recorded(session_id, SESSION_INITIATED,
                                                table_name, <<>>, r)>>,
                        !.exc = r.raised]]
     ELSE [table |-> r.table,
           run |-> [run EXCEPT
                      !.pc = "returned", !.meta = MetaOf(m),
                      !.recorded = <<Recorded(session_id, SESSION_INITIATED,
                                              table_name, <<>>, r)>>,
                      !.response = [statusCode |-> 200,
                                    session_id |-> session_id]]]

\* the events the Step Function sends, the values of JOURNAL_TABLE_NAME
InitializerEvents ==
  {EmptyDict, [session_id |-> ""], [session_id |-> "s1"],
   [session_id |-> "\\int"]}

InitializerTableNames == {None, "journal-table"}

SessionInitializerHandler(event, table_name, meta_fault, event_id, fault) ==
  LET h == session_initializer(table, clock, event, table_name, meta_fault,
                               event_id, fault)
  IN /\ HandlerIdle
     /\ table' = h.table
     /\ hrun' = h.run
     /\ LogRecorded(h.run.recorded)
     /\ UNCHANGED <<clock, agentVars, toolVars, valVars>>

\* record_metadata called directly
RecordMetadataCall(session_id, table_name, fault) ==
  LET m == record_metadata(table, clock, session_id, table_name,
                           ttl_days_default, fault)
  IN /\ HandlerIdle
     /\ table' = m.table
     /\ hrun' = [NewRun("record_metadata") EXCEPT
                   !.session_id = session_id, !.table_name = table_name,
                   !.pc = IF m.raised = NoExc THEN "returned" ELSE "raised",
                   !.meta = MetaOf(m), !.exc = m.raised]
     /\ UNCHANGED <<clock, agentVars, toolVars, valVars, lastPut, ncalls>>

\* -------------------------------------------------------- agent_invoker.py
\* int(os.environ.get("TTL_DAYS", "30"))
invoker_ttl_days == 30

\* what invoke_agent_runtime returns and what it can raise
RuntimeResponses(session_id) ==
  {EmptyDict, [statusCode |-> 200, runtimeSessionId |-> session_id]}

RuntimeErrors ==
  {ClientError("ThrottlingException", <<"Rate exceeded">>,
               "InvokeAgentRuntime"),
   PyError("Exception", <<"AgentCore error">>)}

InvokerEvents == {EmptyDict, [session_id |-> "s1"]}

\* handler(event, context) up to the first record_event: session_id =
\* event["session_id"] (outside the try), then AGENT_INVOCATION_STARTED
InvokerEnter(event, event_id, fault) ==
  LET session_id == Get(event, "session_id", None)
      r == record_event(table, clock, session_id, AGENT_INVOCATION_STARTED,
                        journal_table_name, invoker_ttl_days, <<>>, event_id,
                        fault)
      run == NewRun("agent_invoker")
  IN /\ HandlerIdle
     /\ IF "session_id" \notin DOMAIN event
          THEN /\ hrun' = [run EXCEPT
                             !.pc = "raised",
                             !.exc = PyError("KeyError", <<"'session_id'">>)]
               /\ UNCHANGED <<table, lastPut, ncalls>>
          ELSE /\ table' = r.table
               /\ hrun' = [run EXCEPT
                             !.session_id = session_id,
                             !.pc = IF r.raised = NoExc THEN "call_runtime"
                                                        ELSE "except",
                             !.recorded =
                               <<Recorded(session_id,
                                          AGENT_INVOCATION_STARTED,
                                          journal_table_name, <<>>, r)>>,
                             !.exc = r.raised]
               /\ LogRecorded(hrun'.recorded)
     /\ UNCHANGED <<clock, agentVars, toolVars, valVars>>

\* bedrock_agentcore.invoke_agent_runtime(**invoke_params) ends: it returns
\* the runtime's response or raises
InvokerRuntimeDone(outcome, response) ==
  /\ hrun.fn = "agent_invoker"
  /\ hrun.pc = "call_runtime"
  /\ hrun' = [hrun EXCEPT
                !.called = TRUE,
                !.call_exc = outcome,
                !.pc = IF outcome = NoExc THEN "record_succeeded"
                                          ELSE "except",
                !.exc = outcome,
                !.response = IF outcome = NoExc THEN response ELSE EmptyDict]
  /\ UNCHANGED <<table, clock, agentVars, toolVars, valVars, lastPut, ncalls>>

\* records AGENT_INVOCATION_SUCCEEDED and returns status and sessionId
InvokerRecordSucceeded(event_id, fault) ==
  LET session_id == hrun.session_id
      r == record_event(table, clock, session_id, AGENT_INVOCATION_SUCCEEDED,
                        journal_table_name, invoker_ttl_days, <<>>, event_id,
                        fault)
      new == <<Recorded(session_id, AGENT_INVOCATION_SUCCEEDED,
                        journal_table_name, <<>>, r)>>
  IN /\ hrun.fn = "agent_invoker"
     /\ hrun.pc = "record_succeeded"
     /\ table' = r.table
     /\ hrun' = IF r.raised = NoExc
                  THEN [hrun EXCEPT
                          !.pc = "returned",
                          !.recorded = @ \o new,
                          !.response =
                            [status |-> Get(hrun.response, "statusCode", None),
                             sessionId |-> Get(hrun.response,
                                               "runtimeSessionId", None)]]
                  ELSE [hrun EXCEPT !.pc = "except", !.recorded = @ \o new,
                                    !.exc = r.raised]
     /\ LogRecorded(new)
     /\ UNCHANGED <<clock, agentVars, toolVars, valVars>>

\* except Exception as e: records AGENT_INVOCATION_FAILED with str(e) and
\* re-raises
InvokerExcept(event_id, fault) ==
  LET session_id == hrun.session_id
      e == hrun.exc
      r == record_event(table, clock, session_id, AGENT_INVOCATION_FAILED,
                        journal_table_name, invoker_ttl_days, Str(e),
                        event_id, fault)
      new == <<Recorded(session_id, AGENT_INVOCATION_FAILED,
                        journal_table_name, Str(e), r)>>
  IN /\ hrun.fn = "agent_invoker"
     /\ hrun.pc = "except"
     /\ table' = r.table
     /\ hrun' = [hrun EXCEPT
                   !.pc = "raised",
                   !.recorded = @ \o new,
                   !.response = EmptyDict,
                   !.exc = IF r.raised = NoExc THEN e ELSE r.raised]
     /\ LogRecorded(new)
     /\ UNCHANGED <<clock, agentVars, toolVars, valVars>>

\* ------------------------------------------------ cleanup_stuck_session.py
StopErrors ==
  {ClientError("ResourceNotFoundException", <<"Session not found">>,
               "StopRuntimeSession"),
   PyError("EndpointConnectionError", <<"Could not connect">>)}

CleanupEvents ==
  {EmptyDict, [ping_status |-> "HealthyBusy"]}
  \cup {[session_id |-> "s1", ping_status |-> p] :
          p \in {"HealthyBusy", "Healthy", "Unhealthy"}}
  \cup {[session_id |-> "s1"]}

\* the `except ClientError as e` clause of the handler: e is the exception
\* the try block raised, `done` the record_event calls made before it
cleanup_except(tbl, now, run, done, e, event_id, fault) ==
  LET session_id == run.session_id
      status == EventStatus("AGENT_RUNTIME_SESSION_FORCE_STOP_FAILED")
      error_message == <<"Force stop failed: ", e.code, " - ">> \o e.msg
      r == record_event(tbl, now, session_id, status.value,
                        journal_table_name, ttl_days_default, error_message,
                        event_id, fault)
  IN IF status.raised # NoExc
       THEN [table |-> tbl,
             run |-> [run EXCEPT !.pc = "raised", !.recorded = done,
                                 !.exc = status.raised]]
       ELSE [table |-> r.table,
             run |-> [run EXCEPT
                        !.pc = "raised",
                        !.recorded =
                          done \o <<Recorded(session_id, status.value,
                                             journal_table_name,
                                             error_message, r)>>,
                        !.exc = IF r.raised = NoExc THEN e ELSE r.raised]]

\* lambda_handler(event, context): the run it makes and the table it leaves
cleanup_stuck_session(tbl, now, event, stop_outcome, id1, fault1, id2, fault2) ==
  LET session_id == Get(event, "session_id", None)
      ping_status == Get(event, "ping_status", None)
      run == [NewRun("cleanup_stuck_session") EXCEPT
                !.session_id = session_id, !.ping_status = ping_status]
      stopped == [run EXCEPT !.called = TRUE, !.call_exc = stop_outcome]
      force_stopped == EventStatus("AGENT_RUNTIME_SESSION_FORCE_STOPPED")
      not_required == EventStatus("AGENT_RUNTIME_SESSION_STOP_NOT_REQUIRED")
      r1 == record_event(tbl, now, session_id, force_stopped.value,
                         journal_table_name, ttl_days_default, <<>>, id1,
                         fault1)
      done1 == <<Recorded(session_id, force_stopped.value,
                          journal_table_name, <<>>, r1)>>
      r3 == record_event(tbl, now, session_id, not_required.value,
                         journal_table_name, ttl_days_default, <<>>, id1,
                         fault1)
      done3 == <<Recorded(session_id, not_required.value,
                          journal_table_name, <<>>, r3)>>
  IN IF ~Truthy(session_id)
       THEN [table |-> tbl,
             run |-> [run EXCEPT
                        !.pc = "returned",
                        !.response =
                          [statusCode |-> 400,
                           error |-> "Missing required field: session_id"]]]
     ELSE IF ping_status = "HealthyBusy"
       THEN IF stop_outcome.cls = "ClientError"
              THEN cleanup_except(tbl, now, stopped, <<>>, stop_outcome, id2,
                                  fault2)
            ELSE IF stop_outcome # NoExc
              THEN [table |-> tbl,
                    run |-> [stopped EXCEPT !.pc = "raised",
                                            !.exc = stop_outcome]]
            ELSE IF force_stopped.raised # NoExc
              THEN [table |-> tbl,
                    run |-> [stopped EXCEPT !.pc = "raised",
                                            !.exc = force_stopped.raised]]
            ELSE IF r1.raised.cls = "ClientError"
              THEN cleanup_except(r1.table, now, stopped, done1, r1.raised,
                                  id2, fault2)
            ELSE IF r1.raised # NoExc
              THEN [table |-> r1.table,
                    run |-> [stopped EXCEPT !.pc = "raised",
                                            !.recorded = done1,
                                            !.exc = r1.raised]]
            ELSE [table |-> r1.table,
                  run |-> [stopped EXCEPT
                             !.pc = "returned", !.recorded = done1,
                             !.response = [status |-> "force_stopped",
                                           sessionId |-> session_id]]]
     ELSE IF ping_status = "Healthy"
       THEN IF not_required.raised # NoExc
              THEN [table |-> tbl,
                    run |-> [run EXCEPT !.pc = "raised",
                                        !.exc = not_required.raised]]
            ELSE IF r3.raised # NoExc
              THEN [table |-> r3.table,
                    run |-> [run EXCEPT !.pc = "raised", !.recorded = done3,
                                        !.exc = r3.raised]]
            ELSE [table |-> r3.table,
                  run |-> [run EXCEPT
                             !.pc = "returned", !.recorded = done3,
                             !.response = [status |-> "stop_not_required",
                                           sessionId |-> session_id]]]
     ELSE [table |-> tbl,
           run |-> [run EXCEPT
                      !.pc = "returned",
                      !.response =
                        [status |-> "stop_not_required",
                         sessionId |-> session_id,
                         warning |-> <<"Unexpected ping_status: ",
                                       ping_status>>]]]

CleanupHandler(event, stop_outcome, fault1, fault2) ==
  LET h == cleanup_stuck_session(table, clock, event, stop_outcome,
                                 ncalls + 1, fault1, ncalls + 2, fault2)
  IN /\ HandlerIdle
     /\ table' = h.table
     /\ hrun' = h.run
     /\ LogRecorded(h.run.recorded)
     /\ UNCHANGED <<clock, agentVars, toolVars, valVars>>

\* the Lambda functions and record_metadata, each called any number of
\* times, over a journal table that may fail any request
\* what the store does to a record_event write of a handler
LambdaFaults == {NoExc, ThroughputExceeded}

NextLambda ==
  \/ Tick
  \/ \E event \in InitializerEvents, table_name \in InitializerTableNames,
        meta_fault \in Faults, fault \in LambdaFaults :
       SessionInitializerHandler(event, table_name, meta_fault, FreshEventId,
                                 fault)
  \/ \E session_id \in RecSessionIds, table_name \in RecTableNames,
        fault \in Faults :
       RecordMetadataCall(session_id, table_name, fault)
  \/ \E event \in InvokerEvents, fault \in LambdaFaults :
       InvokerEnter(event, FreshEventId, fault)
  \/ \E outcome \in RuntimeErrors \cup {NoExc},
        response \in RuntimeResponses(hrun.session_id) :
       InvokerRuntimeDone(outcome, response)
  \/ \E fault \in LambdaFaults : InvokerRecordSucceeded(FreshEventId, fault)
  \/ \E fault \in LambdaFaults : InvokerExcept(FreshEventId, fault)
  \/ \E event \in CleanupEvents, stop_outcome \in StopErrors \cup {NoExc},
        fault1 \in LambdaFaults, fault2 \in LambdaFaults :
       CleanupHandler(event, stop_outcome, fault1, fault2)

SpecLambda == Init /\ [][NextLambda]_vars

\* ------------------------------------------------------------ the expiry
\* record_event and record_metadata called at instants on both sides of a
\* whole second, with the retention the caller chooses

MaxInstant == 2000

\* the milliseconds that pass between two calls
ElapseSteps == {999, 1000}

Elapse(ms) ==
  /\ clock + ms <= MaxInstant
  /\ clock' = clock + ms
  /\ UNCHANGED <<toolVars, valVars, lamVars, table, agentVars, lastPut, ncalls>>

TtlDays == {30, 90}

\* record_metadata(session_id, table_name, ttl_days=ttl_days)
RecordMetadataWith(session_id, table_name, ttl_days, fault) ==
  LET m == record_metadata(table, clock, session_id, table_name, ttl_days,
                           fault)
  IN /\ HandlerIdle
     /\ table' = m.table
     /\ hrun' = [NewRun("record_metadata") EXCEPT
                   !.session_id = session_id, !.table_name = table_name,
                   !.meta = Update(MetaOf(m), [ttl_days |-> ttl_days]),
                   !.pc = IF m.raised = NoExc THEN "returned" ELSE "raised",
                   !.exc = m.raised]
     /\ UNCHANGED <<clock, agentVars, toolVars, valVars, lastPut, ncalls>>

NextTtl ==
  \/ \E ms \in ElapseSteps : Elapse(ms)
  \/ \E ttl_days \in TtlDays :
       RecordEventCall("s1", SESSION_INITIATED, journal_table_name, ttl_days,
                       <<>>, FreshEventId, NoExc)
  \/ \E ttl_days \in TtlDays :
       RecordMetadataWith("s1", journal_table_name, ttl_days, NoExc)

SpecTtl == Init /\ [][NextTtl]_vars

\* ------------------------------------------------------------ the workflow
\* One session taken through the documented flow: the session initializer,
\* then the agent invoker, whose invoke_agent_runtime call makes the runtime
\* run invoke for the session; the background task goes on after invoke has
\* answered.  A journal write is served or refused by the store.

\* the runtime answering a session before the handler's call is made
RuntimeCalledOnceInitialized(session_id) ==
  /\ hrun.fn \in {"session_initializer", "agent_invoker"}
  /\ hrun.session_id = session_id

\* the handler is inside invoke_agent_runtime(runtimeSessionId=session_id)
RuntimeCalled(session_id) ==
  /\ hrun.fn = "agent_invoker"
  /\ hrun.pc = "call_runtime"
  /\ hrun.session_id = session_id

WorkflowEvents == {[session_id |-> "s1"], [session_id |-> "s2"]}

\* what the store does to a journal write of the workflow
WorkflowFaults == {NoExc, ThroughputExceeded}

NextWorkflow ==
  \/ Tick
  \/ \E event \in WorkflowEvents, fault \in WorkflowFaults :
       /\ hrun.n = 0
       /\ SessionInitializerHandler(event, journal_table_name, NoExc,
                                    FreshEventId, fault)
  \/ \E fault \in WorkflowFaults :
       /\ hrun.fn = "session_initializer"
       /\ hrun.pc = "returned"
       /\ InvokerEnter([session_id |-> hrun.session_id], FreshEventId, fault)
  \/ \E session_id \in SessionIds, fault \in WorkflowFaults :
       /\ RuntimeCalled(session_id)
       /\ InvokeEnter(1, [session_id |-> session_id], EmptyDict,
                      FreshEventId, fault)
  \/ \E outcome \in SchedErrors \cup {NoExc} : InvokeCreateTask(1, outcome)
  \/ \E fault \in WorkflowFaults : InvokeRecordStarted(1, FreshEventId, fault)
  \/ \E fault \in WorkflowFaults : InvokeExcept(1, FreshEventId, fault)
  \/ \E outcome \in SetupErrors \cup {NoExc} : TaskStart(1, outcome)
  \/ \E outcome \in ConcurrentStageErrors \cup {NoExc} :
       TaskAnalysisDone(1, outcome)
  \/ \E outcome \in ConcurrentStageErrors \cup {NoExc},
        response \in ReportResponses :
       TaskReportDone(1, outcome, response)
  \/ \E fault \in WorkflowFaults : TaskRecordCompleted(1, FreshEventId, fault)
  \/ \E fault \in WorkflowFaults : TaskExcept(1, FreshEventId, fault)
  \/ \E response \in RuntimeResponses(hrun.session_id) :
       /\ inv[1].pc = "returned"
       /\ InvokerRuntimeDone(NoExc, response)
  \/ \E outcome \in RuntimeErrors : InvokerRuntimeDone(outcome, EmptyDict)
  \/ \E fault \in WorkflowFaults : InvokerRecordSucceeded(FreshEventId, fault)
  \/ \E fault \in WorkflowFaults : InvokerExcept(FreshEventId, fault)

SpecWorkflow == Init /\ [][NextWorkflow]_vars

\* =================================================================== claims
\* positions in the call log of invoke i and its task
CallsOf(i, status) ==
  {n \in 1..Len(calls[i]) : calls[i][n].status = status}

\* the calls among them that returned normally, i.e. stored their item
StoredOf(i, status) ==
  {n \in CallsOf(i, status) : calls[i][n].raised = NoExc}

InvokeEnded(i) == inv[i].pc \in {"returned", "raised"}
TaskEnded(i) == task[i].pc \in {"returned", "raised"}

\* C1: two record_event writes that target the same composite key (PK, SK)
\* leave exactly one stored event: a write whose key is already stored is
\* rejected (record_event raises and the table is as before), no stored item
\* is ever replaced or removed, and no two stored items share a key.
C1_ConditionalWriteKeepsFirst ==
  [][ /\ \A it \in table : it \in table'
      /\ \A a, b \in table' : SameKey(a, b) => a = b
      /\ ( /\ ncalls' # ncalls
           /\ Len(lastPut'.put) = 1
           /\ \E it \in table : SameKey(it, lastPut'.put[1]) )
         => (lastPut'.raised # NoExc /\ table' = table) ]_vars

\* C1 witness: a write was rejected by the conditional check while the stored
\* item with its key has other attributes than the rejected one
C1_Witness ==
  /\ Len(lastPut.put) = 1
  /\ lastPut.raised = ConditionalCheckFailed
  /\ \E it \in table : SameKey(it, lastPut.put[1]) /\ it # lastPut.put[1]

\* C2 (as claimed): the table holds at most one event for each
\* (session_id, status) pair
C2_OneEventPerSessionStatus ==
  \A a, b \in table :
    (a["sessionId"] = b["sessionId"] /\ a["status"] = b["status"]) => a = b

\* C3: in a run of background_task in which a stage raised, no
\* AGENT_BACKGROUND_TASK_COMPLETED is recorded, record_event is called for
\* AGENT_BACKGROUND_TASK_FAILED at most once, exactly once when the run has
\* ended, and when background_task returns exactly one such event of the run
\* is in the table, under the run's session.
C3_OneFailedEventPerFailedRun ==
  \A i \in Invocations :
    task[i].stage_raised # "" =>
      /\ CallsOf(i, AGENT_BACKGROUND_TASK_COMPLETED) = {}
      /\ Cardinality(CallsOf(i, AGENT_BACKGROUND_TASK_FAILED)) <= 1
      /\ TaskEnded(i) =>
           Cardinality(CallsOf(i, AGENT_BACKGROUND_TASK_FAILED)) = 1
      /\ task[i].pc = "returned" =>
           /\ Cardinality(StoredOf(i, AGENT_BACKGROUND_TASK_FAILED)) = 1
           /\ \A n \in StoredOf(i, AGENT_BACKGROUND_TASK_FAILED) :
                /\ calls[i][n].put[1] \in table
                /\ calls[i][n].put[1]["PK"] = <<"SESSION", task[i].session_id>>
                /\ calls[i][n].put[1]["status"] = AGENT_BACKGROUND_TASK_FAILED

\* C3 witness: a run whose report stage raised has returned
C3_Witness ==
  /\ task[1].pc = "returned"
  /\ task[1].stage_raised = "report"
  /\ Cardinality(StoredOf(1, AGENT_BACKGROUND_TASK_FAILED)) = 1

\* C4 (as claimed): a run records at most one terminal event, never both
\* COMPLETED and FAILED; a FAILED event or a 'failed' result only if a stage
\* raised; a run whose two stages succeeded returns the report's response
C4_FailedOnlyIfStageRaised ==
  \A i \in Invocations :
    /\ Cardinality(StoredOf(i, AGENT_BACKGROUND_TASK_COMPLETED)
                   \cup StoredOf(i, AGENT_BACKGROUND_TASK_FAILED)) <= 1
    /\ CallsOf(i, AGENT_BACKGROUND_TASK_FAILED) # {} =>
         task[i].stage_raised # ""
    /\ (TaskEnded(i) /\ task[i].report # EmptyDict) =>
         (task[i].pc = "returned" /\ task[i].result = task[i].report)

\* C5 (as claimed): no exception propagates out of background_task
C5_TaskNeverRaises ==
  \A i \in Invocations : task[i].pc # "raised"

C7_SchedulingFailure ==
  \A i \in Invocations :
    inv[i].sched_exc # NoExc =>
      LET failed == CallsOf(i, AGENT_RUNTIME_INVOKE_FAILED)
      IN /\ task[i].pc = "none"
         /\ CallsOf(i, AGENT_BACKGROUND_TASK_STARTED) = {}
         /\ InvokeEnded(i) =>
              /\ Cardinality(failed) = 1
              /\ \A n \in failed :
                   calls[i][n].error_message = inv[i].sched_exc.msg
         /\ inv[i].pc = "returned" =>
              /\ DOMAIN inv[i].response = {"error", "session_id"}
              /\ inv[i].response["error"] =
                   <<"Error starting background processing: ">>
                   \o inv[i].sched_exc.msg
              /\ inv[i].response["session_id"] = inv[i].context_sid
              /\ \A n \in failed :
                   /\ calls[i][n].put[1] \in table
                   /\ calls[i][n].put[1]["errorMessage"] =
                        inv[i].sched_exc.msg

\* C7 witness: scheduling raised and invoke has returned
C7_Witness ==
  /\ inv[1].sched_exc # NoExc
  /\ inv[1].pc = "returned"

\* C8 (as claimed): invoke always returns a response and never raises
C8_InvokeNeverRaises ==
  \A i \in Invocations : inv[i].pc # "raised"

\* C9: invoke records its events under, returns, and hands to the background
\* task the session_id of the execution context, whatever the payload: two
\* invocations with the same context write into the same session partition.
C9_SessionFromContext ==
  /\ \A i \in Invocations :
       /\ \A n \in 1..Len(calls[i]) :
            /\ calls[i][n].session_id = inv[i].context_sid
            /\ Len(calls[i][n].put) = 1 =>
                 calls[i][n].put[1]["PK"] = <<"SESSION", inv[i].context_sid>>
       /\ inv[i].pc = "returned" =>
            inv[i].response["session_id"] = inv[i].context_sid
       /\ task[i].pc # "none" => task[i].session_id = inv[i].context_sid
  /\ \A i, j \in Invocations :
       inv[i].context_sid = inv[j].context_sid =>
         \A n \in 1..Len(calls[i]), m \in 1..Len(calls[j]) :
           (Len(calls[i][n].put) = 1 /\ Len(calls[j][m].put) = 1) =>
             calls[i][n].put[1]["PK"] = calls[j][m].put[1]["PK"]

\* C9 witness: two invocations with the same context have returned, one of
\* them with a payload that names another session
C9_Witness ==
  /\ inv[1].pc = "returned" /\ inv[2].pc = "returned"
  /\ inv[1].context_sid = "s1" /\ inv[2].context_sid = "s1"
  /\ inv[1].payload # inv[2].payload
  /\ "session_id" \in DOMAIN inv[2].payload
  /\ inv[2].payload["session_id"] = "s2"
  /\ task[2].pc = "returned"

\* C10: the result of a run in which a stage raised is classified by the
\* class of the exception: credentials-absent gives error and error_code
\* 'NoCredentialsError'; a client error gives error 'ClientError' and the
\* provider's code as error_code; any other exception gives error 'Exception'
\* and its type name as error_type; every one carries the session_id and
\* status 'failed'.
C10_FailureClassification ==
  \A i \in Invocations :
    (task[i].pc = "returned" /\ task[i].stage_raised # "") =>
      LET e == task[i].stage_exc
          res == task[i].result
      IN /\ {"error", "session_id", "status"} \subseteq DOMAIN res
         /\ res["session_id"] = inv[i].context_sid
         /\ res["status"] = "failed"
         /\ e.cls = "NoCredentialsError" =>
              /\ res["error"] = "NoCredentialsError"
              /\ "error_code" \in DOMAIN res
              /\ res["error_code"] = "NoCredentialsError"
         /\ e.cls = "ClientError" =>
              /\ res["error"] = "ClientError"
              /\ "error_code" \in DOMAIN res
              /\ res["error_code"] = e.code
         /\ e.cls \notin {"NoCredentialsError", "ClientError"} =>
              /\ res["error"] = "Exception"
              /\ "error_type" \in DOMAIN res
              /\ res["error_type"] = e.cls

\* C10 witness: a run whose analysis stage was throttled has returned
C10_Witness ==
  /\ task[1].pc = "returned"
  /\ task[1].stage_raised = "analysis"
  /\ task[1].stage_exc.code = "ThrottlingException"
  /\ task[1].result["error"] = "ClientError"

\* C11: the report stage is invoked only when the analysis stage has
\* returned without raising; once the analysis stage raised, the report
\* stage is never invoked and produces no response; and when a run in which
\* a stage raised returns, its result and the AGENT_BACKGROUND_TASK_FAILED
\* event it journaled carry the error of the stage that raised.
C11_ReportOnlyAfterAnalysis ==
  [][ \A i \in Invocations :
        /\ (task'[i].pc = "report" /\ task[i].pc # "report") =>
             (task[i].pc = "analysis" /\ task'[i].stage_raised = "")
        /\ task[i].stage_raised = "analysis" =>
             (task'[i].pc # "report" /\ task'[i].report = EmptyDict)
        /\ ( /\ task'[i].pc = "returned" /\ task[i].pc # "returned"
             /\ task'[i].stage_raised # "" ) =>
             LET a == ExceptClause(task'[i].stage_exc)
             IN /\ task'[i].result =
                     error_dict(task'[i].session_id, a.error_type,
                                a.error_message, a.error_code,
                                a.error_type_name)
                /\ lastPut'.put[1]["status"] = AGENT_BACKGROUND_TASK_FAILED
                /\ lastPut'.put[1]["errorMessage"] = a.error_message
                /\ lastPut'.put[1] \in table' ]_vars

\* C11 witness: the analysis stage raised and the run has returned its error
\* without a response of the report stage
C11_Witness ==
  /\ task[1].pc = "returned"
  /\ task[1].stage_raised = "analysis"
  /\ task[1].report = EmptyDict
  /\ task[1].result["error"] = "NoCredentialsError"

\* C12 (as claimed): every background task that was scheduled eventually
\* has an AGENT_BACKGROUND_TASK_COMPLETED or AGENT_BACKGROUND_TASK_FAILED
\* event recorded for it
C12_ScheduledTaskGetsTerminalEvent ==
  \A i \in Invocations :
    (task[i].pc = "scheduled") ~>
      (StoredOf(i, AGENT_BACKGROUND_TASK_COMPLETED)
       \cup StoredOf(i, AGENT_BACKGROUND_TASK_FAILED) # {})

\* a journal call with a phase name and a status the tool takes
WellFormedTaskCall(c) ==
  /\ c.action \in {"start_task", "complete_task"}
  /\ Truthy(c.phase_name)
  /\ c.status = None \/ c.status \in TaskStatus

C14_JournalNeverRaises ==
  jlast.action # "" =>
    /\ jlast.raised = NoExc
    /\ {"success", "timestamp"} \subseteq DOMAIN jlast.result
    /\ jlast.result["success"] \in BOOLEAN

\* C15 (as claimed): start_task and complete_task called with an invocation
\* state that has no session_id return success = false with the 'No active
\* session' error and write nothing, whatever was called before
C15_NoSessionInContext ==
  [][ ( /\ ncalls' # ncalls
        /\ WellFormedTaskCall(jlast')
        /\ ~Truthy(Get(jlast'.context, "session_id", None)) )
      => /\ jlast'.raised = NoExc
         /\ jlast'.result["success"] = FALSE
         /\ "error_type" \in DOMAIN jlast'.result
         /\ jlast'.result["error_type"] = "NO_SESSION"
         /\ jtable' = jtable /\ table' = table ]_vars

\* the statuses of the events of a session, in the tool's records and in
\* the event journal
SessionStatuses(session_id) ==
  {it["status"] : it \in {x \in jtable : x["session_id"] = session_id}}
  \cup {it["status"] : it \in {x \in table : x["sessionId"] = session_id}}

\* TASK_<phase uppercased, spaces replaced by underscores>_<suffix>
PhaseUpper == [p \in {"Discovery"} |-> "DISCOVERY"]
PhaseStatus(phase_name, suffix) ==
  "TASK_" \o PhaseUpper[phase_name] \o "_" \o suffix

\* C16 (as claimed): after start_task(P) has written its record and
\* complete_task(P, S) has succeeded, the session's journal holds the events
\* TASK_<P>_STARTED and TASK_<P>_<S>, and the completion reports
\* duration_seconds >= 0
C16_TwoEventsPerTask ==
  ( /\ jlast.action = "complete_task"
    /\ jlast.raised = NoExc
    /\ jlast.result["success"] = TRUE
    /\ \E it \in jtable : /\ it["session_id"] = jlast.session_id
                          /\ Get(it, "phase_name", None) = jlast.phase_name )
  => /\ PhaseStatus(jlast.phase_name, "STARTED")
          \in SessionStatuses(jlast.session_id)
     /\ PhaseStatus(jlast.phase_name, jlast.result["status"])
          \in SessionStatuses(jlast.session_id)
     /\ jlast.result["duration_seconds"] >= 0

\* the grammar of the dynamic statuses as the specification states it:
\* TASK_<phase>_<suffix> with a suffix of the five
GrammarSuffixes ==
  {"_STARTED", "_COMPLETED", "_FAILED", "_CANCELLED", "_SKIPPED"}

PhaseOf(status) == SubSeq(status, 2, Len(status) - 1)

FitsPrefixAndSuffix(status) ==
  /\ Len(status) >= 2
  /\ status[1] = "TASK_"
  /\ status[Len(status)] \in GrammarSuffixes

SafePhase(phase) ==
  /\ phase # <<>>
  /\ \A n \in 1..Len(phase) : phase[n] \in SafeTokens
  /\ CharLen(phase) <= MAX_PHASE_NAME_LENGTH

\* C17 (as claimed): whatever the predefined set, validate_event_status
\* accepts every TASK_<phase>_<suffix> whose phase has 1 to 50 characters of
\* [A-Za-z0-9_-] and whose suffix is one of STARTED, COMPLETED, FAILED,
\* CANCELLED, SKIPPED
C17_AcceptsFiveSuffixes ==
  ( /\ verdict # <<>>
    /\ FitsPrefixAndSuffix(status_in)
    /\ SafePhase(PhaseOf(status_in)) )
  => verdict[1].raised = NoExc

\* C18 (as claimed): a status outside the predefined set is rejected with a
\* ValueError that names it when the phase is longer than 50 characters
\* (with the length as the reason when it is the phase the pattern
\* extracted), has a character outside
\* [A-Za-z0-9_-] or is empty, or when the prefix or the suffix does not fit
\* the grammar
C18_RejectsOutsideGrammar ==
  ( /\ verdict # <<>>
    /\ Join(status_in) \notin verdict[1].predefined
    /\ \/ ~FitsPrefixAndSuffix(status_in)
       \/ ~SafePhase(PhaseOf(status_in)) )
  => /\ verdict[1].raised.cls = "ValueError"
     /\ Len(verdict[1].raised.msg) >= 2
     /\ verdict[1].raised.msg[1] = "Invalid status '"
     /\ verdict[1].raised.msg[2] = Join(status_in)
     /\ ( /\ DYNAMIC_STATUS_PATTERN(status_in).matched
          /\ CharLen(DYNAMIC_STATUS_PATTERN(status_in).phase)
               > MAX_PHASE_NAME_LENGTH )
        => /\ Len(verdict[1].raised.msg) >= 5
           /\ verdict[1].raised.msg[5] = "' exceeds maximum length of "

\* C19 (as claimed): record_event accepts a status exactly when
\* validate_event_status accepts it against the full predefined set, and
\* stores an event with each status it accepts
C19_RecorderAgreesWithValidator ==
  ( /\ verdict # <<>> /\ ncalls = 1
    /\ verdict[1].predefined = valid_statuses )
  => /\ (lastPut.raised = NoExc) <=> (verdict[1].raised = NoExc)
     /\ lastPut.raised = NoExc =>
          \E it \in table : it["status"] = Join(status_in)

\* the arguments record_event refuses: an empty or non-string session_id or
\* table_name, a status outside the statuses it lists
RefusedArgs(args) ==
  \/ args.session_id = "" \/ ~IsStr(args.session_id)
  \/ args.table_name = "" \/ ~IsStr(args.table_name)
  \/ args.status \notin valid_statuses

\* C20: a record_event call with an empty or non-string session_id or
\* table_name, or with a status it does not accept, raises ValueError without
\* having put an item, and leaves the table as it was
C20_RefusedBeforeStoreAccess ==
  [][ ( /\ ncalls' = ncalls + 1
        /\ RefusedArgs(lastPut'.args) )
      => /\ lastPut'.raised.cls = "ValueError"
         /\ lastPut'.put = <<>>
         /\ table' = table ]_vars

\* a call with a status outside the list was refused while the table held
\* an event already
C20_Witness ==
  /\ table # {}
  /\ lastPut.args.status \notin valid_statuses
  /\ lastPut.args.session_id = "s1"
  /\ lastPut.args.table_name = "journal-table"
  /\ lastPut.raised.cls = "ValueError"
  /\ lastPut.put = <<>>


\* a run of a handler that has ended
RunEnded(fn) == hrun.fn = fn /\ hrun.pc \in {"returned", "raised"}

\* C21 (as claimed): a record_event call whose store write fails returns
\* normally, and a run of the agent-invoker handler whose runtime call
\* returned ends by returning the runtime's status and session id whatever
\* the event writes did
C21_StoreFailureNotRaised ==
  /\ lastPut.put # <<>> => lastPut.raised = NoExc
  /\ ( RunEnded("agent_invoker") /\ hrun.called /\ hrun.call_exc = NoExc )
     => /\ hrun.pc = "returned"
        /\ DOMAIN hrun.response = {"status", "sessionId"}

\* C22: a record_metadata call with a non-empty string session_id and
\* table_name raises nothing, whatever the table does to its write, and the
\* session initializer that made it goes on to its SESSION_INITIATED call
C22_MetadataNeverRaises ==
  ( /\ hrun.meta.called
    /\ Truthy(hrun.session_id) /\ IsStr(hrun.session_id)
    /\ Truthy(hrun.table_name) /\ IsStr(hrun.table_name) )
  => /\ hrun.meta.raised = NoExc
     /\ hrun.fn = "session_initializer"
        => /\ Len(hrun.recorded) = 1
           /\ hrun.recorded[1].status = SESSION_INITIATED
           /\ hrun.recorded[1].session_id = hrun.session_id

\* the metadata write of a session initializer failed, and the handler
\* recorded SESSION_INITIATED and returned
C22_Witness ==
  /\ hrun.fn = "session_initializer"
  /\ hrun.meta.called
  /\ hrun.meta.failed # NoExc
  /\ hrun.pc = "returned"
  /\ \E it \in table : it["SK"][1] = "EVENT" /\ it["status"] = SESSION_INITIATED

\* the metadata records of a session
MetadataOf(session_id) ==
  {it \in table : it["PK"] = <<"SESSION", session_id>>
                  /\ it["SK"][1] = "METADATA"}

\* C23 (as claimed): the table holds at most one metadata record for a
\* session, however many record_metadata calls were made for it
C23_OneMetadataRecordPerSession ==
  \A session_id \in RecSessionIds : Cardinality(MetadataOf(session_id)) <= 1

\* C24 (as claimed): no handler passes record_event a status outside the
\* statuses it accepts, and a cleanup run that stopped a session, failed to
\* stop it with a client error, or found it healthy gets its record_event
\* call made
C24_EveryStatusInTaxonomy ==
  /\ \A n \in 1..Len(hrun.recorded) :
       hrun.recorded[n].status \in valid_statuses
  /\ ( /\ RunEnded("cleanup_stuck_session")
       /\ Truthy(hrun.session_id)
       /\ \/ hrun.ping_status = "Healthy"
          \/ /\ hrun.ping_status = "HealthyBusy"
             /\ hrun.call_exc = NoExc \/ hrun.call_exc.cls = "ClientError" )
     => /\ hrun.recorded # <<>>
        /\ hrun.exc.cls # "AttributeError"


\* the step of the documented Event Flow a status belongs to
FlowStep(status) ==
  CASE status = SESSION_INITIATED -> 1
    [] status = AGENT_INVOCATION_STARTED -> 2
    [] status \in {AGENT_INVOCATION_SUCCEEDED, AGENT_INVOCATION_FAILED} -> 3
    [] status = AGENT_RUNTIME_INVOKE_STARTED -> 4
    [] status = AGENT_RUNTIME_INVOKE_FAILED -> 5
    [] status = AGENT_BACKGROUND_TASK_STARTED -> 6
    [] status \in {AGENT_BACKGROUND_TASK_COMPLETED,
                   AGENT_BACKGROUND_TASK_FAILED} -> 7

\* the stored events of a session; eventId is the order of the writes
EventsOf(session_id) ==
  {it \in table : it["PK"] = <<"SESSION", session_id>>
                  /\ it["SK"][1] = "EVENT"}

RecordedBefore(x, y) ==
  \/ FlowStep(x) # 3 /\ FlowStep(y) # 3 /\ FlowStep(x) < FlowStep(y)
  \/ x \in {SESSION_INITIATED, AGENT_INVOCATION_STARTED} /\ FlowStep(y) = 3
  \/ /\ FlowStep(x) \in {4, 5, 6}
     /\ y = AGENT_INVOCATION_SUCCEEDED

RecordedAs(status) ==
  {n \in 1..Len(hrun.recorded) : hrun.recorded[n].status = status}

\* C26 (as claimed): a run of the agent-invoker handler for a session
\* records AGENT_INVOCATION_STARTED first and then exactly one outcome:
\* AGENT_INVOCATION_SUCCEEDED exactly when the runtime call returned,
\* AGENT_INVOCATION_FAILED with the error's text exactly when the runtime
\* call raised, and then that error is raised again
C26_OneOutcomePerInvocation ==
  ( RunEnded("agent_invoker") /\ hrun.recorded # <<>> )
  => /\ hrun.recorded[1].status = AGENT_INVOCATION_STARTED
     /\ Len(hrun.recorded) = 2
     /\ RecordedAs(AGENT_INVOCATION_SUCCEEDED) # {}
          <=> (hrun.called /\ hrun.call_exc = NoExc)
     /\ RecordedAs(AGENT_INVOCATION_FAILED) # {}
          <=> (hrun.called /\ hrun.call_exc # NoExc)
     /\ RecordedAs(AGENT_INVOCATION_FAILED) # {}
          => /\ hrun.recorded[2].error_message = Str(hrun.call_exc)
             /\ hrun.pc = "raised"
             /\ hrun.exc = hrun.call_exc

\* C27 (as claimed): the cleanup handler calls stop_runtime_session exactly
\* when it has a session_id and ping_status is HealthyBusy; for Healthy it
\* records the stop-not-required event and returns stop_not_required; for
\* another ping_status it records nothing and returns stop_not_required
\* with a warning; without a session_id it returns statusCode 400, stops
\* and records nothing
C27_StopOnlyWhenHealthyBusy ==
  RunEnded("cleanup_stuck_session")
  => /\ hrun.called
          <=> (Truthy(hrun.session_id) /\ hrun.ping_status = "HealthyBusy")
     /\ ( Truthy(hrun.session_id) /\ hrun.ping_status = "Healthy" )
        => /\ Len(hrun.recorded) = 1
           /\ hrun.recorded[1].status
                = "AGENT_RUNTIME_SESSION_STOP_NOT_REQUIRED"
           /\ hrun.recorded[1].raised = NoExc
                => /\ hrun.pc = "returned"
                   /\ hrun.response["status"] = "stop_not_required"
     /\ ( /\ Truthy(hrun.session_id)
          /\ hrun.ping_status \notin {"HealthyBusy", "Healthy"} )
        => /\ hrun.recorded = <<>>
           /\ hrun.pc = "returned"
           /\ hrun.response["status"] = "stop_not_required"
           /\ "warning" \in DOMAIN hrun.response
     /\ ~Truthy(hrun.session_id)
        => /\ hrun.recorded = <<>>
           /\ hrun.pc = "returned"
           /\ hrun.response["statusCode"] = 400

\* C28 (as claimed): the cleanup handler makes the
\* AGENT_RUNTIME_SESSION_FORCE_STOP_FAILED call, with the provider's code
\* and message, and raises the error again exactly when
\* stop_runtime_session raised a client error; a stop that returned is
\* journaled as AGENT_RUNTIME_SESSION_FORCE_STOPPED, never as a failed stop
C28_StopFailureJournaled ==
  RunEnded("cleanup_stuck_session")
  => /\ RecordedAs("AGENT_RUNTIME_SESSION_FORCE_STOP_FAILED") # {}
          <=> (hrun.called /\ hrun.call_exc.cls = "ClientError")
     /\ ( hrun.called /\ hrun.call_exc.cls = "ClientError" )
        => /\ hrun.pc = "raised"
           /\ Len(hrun.recorded) = 1
           /\ hrun.recorded[1].error_message
                = <<"Force stop failed: ", hrun.call_exc.code, " - ">>
                  \o hrun.call_exc.msg
           /\ hrun.recorded[1].raised = NoExc => hrun.exc = hrun.call_exc
     /\ ( hrun.called /\ hrun.call_exc = NoExc )
        => /\ hrun.recorded # <<>>
           /\ hrun.recorded[1].status = "AGENT_RUNTIME_SESSION_FORCE_STOPPED"

\* C29: the session initializer returns statusCode 200 with the session_id
\* only when its SESSION_INITIATED event is stored; with no session_id, no
\* table name or a record_event call that raised it raises and returns no
\* response
C29_InitializedOnlyWhenRecorded ==
  RunEnded("session_initializer")
  => /\ hrun.pc = "returned"
        => /\ hrun.response = [statusCode |-> 200,
                               session_id |-> hrun.session_id]
           /\ Len(hrun.recorded) = 1
           /\ hrun.recorded[1].status = SESSION_INITIATED
           /\ hrun.recorded[1].raised = NoExc
           /\ hrun.recorded[1].put[1] \in table
           /\ hrun.recorded[1].put[1]["sessionId"] = hrun.session_id
     /\ ( \/ ~Truthy(hrun.session_id)
          \/ ~Truthy(hrun.table_name)
          \/ \E n \in 1..Len(hrun.recorded) :
               hrun.recorded[n].raised # NoExc )
        => /\ hrun.pc = "raised"
           /\ hrun.response = EmptyDict
           /\ hrun.exc # NoExc

\* the SESSION_INITIATED write of a session initializer failed while an
\* earlier run had initialized the session: the handler raised
C29_Witness ==
  /\ RunEnded("session_initializer")
  /\ hrun.n = 2
  /\ hrun.recorded # <<>>
  /\ hrun.recorded[1].raised.cls = "ClientError"
  /\ hrun.pc = "raised"
  /\ \E it \in table : it["SK"][1] = "EVENT" /\ it["status"] = SESSION_INITIATED

FailureStatuses ==
  {AGENT_INVOCATION_FAILED, AGENT_RUNTIME_INVOKE_FAILED,
   AGENT_BACKGROUND_TASK_FAILED}

\* the stored events
StoredEvents == {it \in table : it["SK"][1] = "EVENT"}

\* C31: a stored event carries an errorMessage attribute only if its status
\* is a failure status; the events the initializer, the invoker, invoke and
\* the background task store with another status carry none
C31_ErrorMessageOnlyOnFailure ==
  \A it \in StoredEvents :
    "errorMessage" \in DOMAIN it => it["status"] \in FailureStatuses

\* a session holds a failure event with its message next to events without
C31_Witness ==
  \E a, b \in EventsOf("s1") :
    /\ a["status"] = AGENT_BACKGROUND_TASK_FAILED
    /\ "errorMessage" \in DOMAIN a
    /\ b["status"] = AGENT_INVOCATION_SUCCEEDED
    /\ "errorMessage" \notin DOMAIN b

\* the record expires a retention of ttl_days after the whole second its
\* creation instant falls in
ExpiresAfter(item, ttl_days) ==
  item["ttlSeconds"] - ttl_days * 86400 = item["createdAt"] \div 1000

\* C32: the item a record_event or record_metadata call builds has
\* ttlSeconds equal to its creation instant in whole epoch seconds plus
\* ttl_days * 86400, and no stored record expires at or before its own
\* createdAt
C32_ExpiryFromCreation ==
  /\ ( lastPut.put # <<>> /\ "ttl_days" \in DOMAIN lastPut.args )
     => ExpiresAfter(lastPut.put[1], lastPut.args.ttl_days)
  /\ ( hrun.meta.put # <<>> /\ "ttl_days" \in DOMAIN hrun.meta )
     => ExpiresAfter(hrun.meta.put[1], hrun.meta.ttl_days)
  /\ \A it \in table : it["ttlSeconds"] > it["createdAt"] \div 1000

\* a metadata record written in the last millisecond of the first second
\* with a retention of 90 days, and an event stored in the last millisecond
\* of the next with a retention of 30
C32_Witness ==
  /\ \E it \in StoredEvents :
       /\ it["createdAt"] = 1999
       /\ it["ttlSeconds"] = 1 + 30 * 86400
  /\ hrun.meta.put # <<>>
  /\ hrun.meta.put[1] \in table
  /\ hrun.meta.put[1]["createdAt"] = 999
  /\ hrun.meta.put[1]["ttlSeconds"] = 90 * 86400
  /\ hrun.meta.ttl_days = 90

\* the task records of a session that carry the phase
TaskRecords(tbl, session_id, phase_name) ==
  {it \in tbl : /\ it["session_id"] = session_id
                /\ it["record_type"][1] = "TASK"
                /\ Get(it, "phase_name", None) = phase_name}

\* C33 (as claimed): complete_task returns success only if the table holds a
\* start record of the phase for the session, and it adds no record to the
\* table, also after a start_task whose write failed
C33_CompleteNeedsStoredStart ==
  [][ ( /\ ncalls' # ncalls
        /\ jlast'.action = "complete_task"
        /\ WellFormedTaskCall(jlast')
        /\ jlast'.raised = NoExc )
      => /\ jlast'.result["success"] = TRUE
              => TaskRecords(jtable, jlast'.session_id,
                             jlast'.phase_name) # {}
         /\ \A it \in jtable' : \E o \in jtable : SameRecord(o, it) ]_vars

\* invoke i returned the error object
ReturnedError(i) ==
  inv[i].pc = "returned" /\ "error" \in DOMAIN inv[i].response

\* C34 (as claimed): when invoke returned an error object no background task
\* was scheduled for the invocation and no AGENT_BACKGROUND_TASK_COMPLETED or
\* FAILED call is made for it; and once invoke has ended, a scheduled task
\* has its AGENT_BACKGROUND_TASK_STARTED event in the journal
C34_ErrorMeansNoTask ==
  \A i \in Invocations :
    /\ ReturnedError(i)
       => /\ CallsOf(i, AGENT_RUNTIME_INVOKE_FAILED) # {}
          /\ task[i].pc = "none"
          /\ CallsOf(i, AGENT_BACKGROUND_TASK_COMPLETED) = {}
          /\ CallsOf(i, AGENT_BACKGROUND_TASK_FAILED) = {}
    /\ ( InvokeEnded(i) /\ task[i].pc # "none" )
       => \E n \in StoredOf(i, AGENT_BACKGROUND_TASK_STARTED) :
            calls[i][n].put[1] \in table

\* ------------------------------------------------- the tasks of two sessions
\* start_task and complete_task of one phase, called for two sessions from
\* one process, with time passing between the calls
MaxTaskCalls == 3

\* invocation_state of the two sessions
TaskContexts == {[session_id |-> "s1"], [session_id |-> "s2"]}

\* status of complete_task: omitted or FAILED
TaskStatusArgs == {None, "FAILED"}

\* what the table does to the put_item of start_task
TaskFaults == {NoExc, ThroughputExceeded}

\* the agent calls journal() for a task; started keeps, for every start_task
\* call, the session, the phase and the time of the call
TaskCall(action, tool_context, status, fault) ==
  LET r == journal(session_cache, jtable, clock, action, tool_context,
                   "Discovery", status, <<>>, "journal-table", NoExc, fault)
      session_id == get_session_id(session_cache, tool_context)
  IN /\ ncalls < MaxTaskCalls
     /\ ncalls' = ncalls + 1
     /\ session_cache' = r.cache
     /\ jtable' = r.table
     /\ jlast' = [action |-> action, phase_name |-> "Discovery",
                  status |-> status, context |-> tool_context,
                  session_id |-> session_id,
                  result |-> r.result, raised |-> r.raised]
     /\ started' = IF action = "start_task"
                     THEN started \cup {<<session_id, "Discovery", clock>>}
                     ELSE started
     /\ UNCHANGED <<table, clock, agentVars, lastPut, valVars, lamVars>>

\* a new process imports the module: _session_cache has its initial value
FreshProcess ==
  /\ session_cache # EmptyCache
  /\ session_cache' = EmptyCache
  /\ UNCHANGED <<table, clock, agentVars, lastPut, ncalls, jtable, jlast,
                 started, valVars, lamVars>>

NextTasks ==
  \/ Tick
  \/ Elapse(1000)
  \/ FreshProcess
  \/ \E tool_context \in TaskContexts, fault \in TaskFaults :
       TaskCall("start_task", tool_context, None, fault)
  \/ \E tool_context \in TaskContexts, status \in TaskStatusArgs :
       TaskCall("complete_task", tool_context, status, NoExc)

SpecTasks == Init /\ [][NextTasks]_vars

\* the records the cache names are in the table
CacheIsStored ==
  \A phase_name \in DOMAIN session_cache.tasks :
    \E it \in jtable :
      /\ it["session_id"] = session_cache.tasks[phase_name].session_id
      /\ it["record_type"] = session_cache.tasks[phase_name].record_type
      /\ "phase_name" \in DOMAIN it

\* complete_task as a process with an empty cache executes the call jlast'
FreshComplete ==
  complete_task(EmptyCache, jtable, clock, jlast'.context, jlast'.phase_name,
                Or(jlast'.status, "COMPLETED"), <<>>, "journal-table", NoExc,
                NoExc)

\* C35 (as claimed): a complete_task served from the process-local cache,
\* whose records are all in the table, leaves the table and returns the
\* result that the same call leaves and returns in a fresh process, where the
\* durable lookup serves it
C35_CacheAgreesWithLookup ==
  [][ ( /\ ncalls' # ncalls
        /\ jlast'.action = "complete_task"
        /\ CacheIsStored
        /\ cached_task(session_cache, jlast'.session_id,
                       jlast'.phase_name) # NoTask )
      => /\ jtable' = FreshComplete.table
         /\ jlast'.result = FreshComplete.result ]_vars

\* the status, end_time and duration_seconds of a task record
Outcome(it) ==
  <<it["status"], Get(it, "end_time", NoTime),
    Get(it, "duration_seconds", NoTime)>>

\* C36 (as claimed): a task record stored by start_task that has a terminal
\* status keeps its status, end_time and duration_seconds in every later
\* start_task and complete_task call
C36_TerminalStatusIsFinal ==
  [][ \A it \in jtable :
        ( /\ it["record_type"][1] = "TASK"
          /\ "phase_name" \in DOMAIN it
          /\ it["status"] \in TaskStatus )
        => \E after \in jtable' :
             /\ after["session_id"] = it["session_id"]
             /\ after["record_type"] = it["record_type"]
             /\ Outcome(after) = Outcome(it) ]_vars

\* the records of the sessions other than session_id
RecordsOfOthers(tbl, session_id) == {it \in tbl : it["session_id"] # session_id}

\* C39: when two sessions start and complete the same phase name in one
\* process, a complete_task that succeeds leaves the records of the other
\* session as they are, writes the record whose key is its own session and
\* the time of a start_task of its own session, and returns the duration
\* measured from that start; one that does not succeed leaves the table as
\* it is
C39_CompleteStaysInItsSession ==
  [][ ( /\ ncalls' # ncalls
        /\ jlast'.action = "complete_task" )
      => IF jlast'.result["success"]
           THEN /\ RecordsOfOthers(jtable', jlast'.session_id)
                     = RecordsOfOthers(jtable, jlast'.session_id)
                /\ \E s \in started :
                     /\ s[1] = jlast'.session_id
                     /\ s[2] = jlast'.phase_name
                     /\ jlast'.result["duration_seconds"]
                          = calculate_duration(clock, s[3])
                     /\ \E it \in jtable' :
                          /\ it["session_id"] = jlast'.session_id
                          /\ it["record_type"] = <<"TASK", s[3]>>
                          /\ it["status"] = jlast'.result["status"]
                          /\ it["end_time"] = clock
                          /\ it["duration_seconds"]
                               = jlast'.result["duration_seconds"]
                          /\ \A o \in jtable' \ jtable : o = it
           ELSE jtable' = jtable ]_vars

\* session s1 started the phase, a second later session s2 started it and
\* owns the cache entry, then s1 completed it: one second, s1's record
C39_Witness ==
  /\ jlast.action = "complete_task"
  /\ jlast.session_id = "s1"
  /\ jlast.result["success"] = TRUE
  /\ jlast.result["duration_seconds"] = 1
  /\ "Discovery" \in DOMAIN session_cache.tasks
  /\ session_cache.tasks["Discovery"].session_id = "s2"
  /\ session_cache.tasks["Discovery"].start_time = 1000
  /\ \E it \in jtable :
       /\ it["session_id"] = "s1"
       /\ it["record_type"] = <<"TASK", 0>>
       /\ it["status"] = "COMPLETED"
  /\ \E it \in jtable :
       /\ it["session_id"] = "s2"
       /\ it["status"] = "IN_PROGRESS"

\* the record_event calls of invocation i that end its background task
TerminalCalls(i) ==
  CallsOf(i, AGENT_BACKGROUND_TASK_COMPLETED)
    \cup CallsOf(i, AGENT_BACKGROUND_TASK_FAILED)

\* C37: in every interleaving of invoke and the task it spawns, the
\* invocation's AGENT_RUNTIME_INVOKE_STARTED event is stored before
\* AGENT_BACKGROUND_TASK_STARTED is recorded, and that is recorded before the
\* task records AGENT_BACKGROUND_TASK_COMPLETED or FAILED; the recording
\* times follow the same order
C37_StartedEventsComeFirst ==
  \A i \in Invocations :
    /\ \A n \in CallsOf(i, AGENT_BACKGROUND_TASK_STARTED) :
         \E m \in StoredOf(i, AGENT_RUNTIME_INVOKE_STARTED) :
           /\ m < n
           /\ calls[i][m].put[1]["createdAt"] <= calls[i][n].put[1]["createdAt"]
    /\ \A n \in TerminalCalls(i) :
         \E m \in CallsOf(i, AGENT_BACKGROUND_TASK_STARTED) :
           /\ m < n
           /\ calls[i][m].put[1]["createdAt"] <= calls[i][n].put[1]["createdAt"]

\* the three events of one invocation are stored, the task's last
C37_Witness ==
  \E i \in Invocations :
    /\ TaskEnded(i)
    /\ \E a \in StoredOf(i, AGENT_RUNTIME_INVOKE_STARTED),
          b \in StoredOf(i, AGENT_BACKGROUND_TASK_STARTED),
          c \in StoredOf(i, AGENT_BACKGROUND_TASK_FAILED) :
         /\ a < b /\ b < c
         /\ {calls[i][a].put[1], calls[i][b].put[1], calls[i][c].put[1]}
              \subseteq table
         /\ calls[i][b].put[1]["createdAt"] < calls[i][c].put[1]["createdAt"]

\* item a comes before item b in sort-key order: EVENT#<createdAt>#<eventId>
SortsBefore(a, b) ==
  \/ a["SK"][2] < b["SK"][2]
  \/ a["SK"][2] = b["SK"][2] /\ a["SK"][3] < b["SK"][3]

\* C38 (as claimed): an event that record_event stores sorts, by its sort
\* key, after every event of its session that was stored before it, also
\* when both were recorded in the same millisecond
C38_SortOrderIsRecordingOrder ==
  [][ ( /\ ncalls' # ncalls
        /\ lastPut'.raised = NoExc
        /\ Len(lastPut'.put) = 1
        /\ lastPut'.put[1] \in table' \ table )
      => \A earlier \in table :
           ( /\ earlier["PK"] = lastPut'.put[1]["PK"]
             /\ earlier["SK"][1] = "EVENT" )
           => SortsBefore(earlier, lastPut'.put[1]) ]_vars

\* invocation i's background task returned the result of a failure
ReturnedFailure(i) ==
  /\ task[i].pc = "returned"
  /\ "status" \in DOMAIN task[i].result
  /\ task[i].result["status"] = "failed"

\* C40: the error_message of a failed background_task result is the
\* provider's message for a client error and str(e) for a generic exception,
\* the journal's message without its "<code> - " or "<type> - " prefix, also
\* when the message itself contains " - "; for a credentials-absent error it
\* is the journal's full "NoCredentialsError - ..." text
C40_ResultMessageWithoutPrefix ==
  \A i \in Invocations :
    ReturnedFailure(i)
    => LET e == task[i].exc
           journalled == calls[i][Len(calls[i])]
       IN /\ journalled.status = AGENT_BACKGROUND_TASK_FAILED
          /\ IF e.cls = "NoCredentialsError"
               THEN /\ task[i].result["error_message"]
                         = <<"NoCredentialsError", " - ">> \o Str(e)
                    /\ journalled.error_message
                         = task[i].result["error_message"]
             ELSE IF e.cls = "ClientError"
               THEN /\ task[i].result["error_message"] = e.msg
                    /\ journalled.error_message
                         = <<e.code, " - ">> \o e.msg
             ELSE /\ task[i].result["error_message"] = Str(e)
                  /\ journalled.error_message
                       = <<e.cls, " - ">> \o Str(e)

\* a stage raised an exception whose text contains " - " and the task
\* returned the failure
C40_Witness ==
  \E i \in Invocations :
    /\ ReturnedFailure(i)
    /\ task[i].exc.cls = "RuntimeError"
    /\ HasSeparator(Str(task[i].exc))
    /\ task[i].result["error_message"] = <<"stage 1", " - ", "timed out">>

====
